---- MODULE Spec2Model ----
(***************************************************************************)
(* HueBleLight (src/HueBLE.py): the connection lifecycle of one light, its *)
(* polls, characteristic reads and writes, and its push notifications.     *)
(* Every asyncio task is a process; an action is the code a task runs      *)
(* between two suspension points (await), or one event of the transport.   *)
(* Operators take the state as a record S and return the next state.       *)
(***************************************************************************)
EXTENDS Integers, Sequences, FiniteSets, TLC

VARIABLES proc, connection_lock, client, sess, nsess, deviceServices,
          mirror, expect_disconnect, connection_attempts,
          state_changed_callbacks, ev, state_update_lock, io

vars == <<proc, connection_lock, client, sess, nsess, deviceServices,
          mirror, expect_disconnect, connection_attempts,
          state_changed_callbacks, ev, state_update_lock, io>>

\* ---------------------------------------------------------------- bounds
\* Tasks of the application that call the public operations.
NumUsers == 1
\* Transport sessions (BleakClient objects) one run may open.
MaxSessions == 2
\* Length of the callback registry.
MaxCallbacks == 1
\* Cap of the attempt counter (it grows with every failed sequence).
AttemptsCap == 2
\* Tasks of the application that call poll_state.
NumPollers == 2
\* The integer arguments of the setters range over -3..MaxArg.
MaxArg == 520

\* ------------------------------------------------------ program constants
DEFAULT_MAX_RECONNECT_ATTEMPTS == -1
DEFAULT_READ_GATT_MAX_ATTEMPTS == 3
DEFAULT_WRITE_GATT_MAX_ATTEMPTS == 3

\* ------------------------------------------------------------ vocabulary
None == 0
NoneS == "None"
NoneI == -1
NoneXY == <<-1, -1>>
DEFAULT_METADATA_STRING == "Unknown"

Users == 1..NumUsers
Sessions == 1..MaxSessions
Procs == 1..(NumUsers + MaxSessions + NumPollers)
\* The task asyncio.create_task(self.reconnect()) makes for session s.
TaskOf(s) == NumUsers + s
Tasks == {TaskOf(s) : s \in Sessions}
Pollers == (NumUsers + MaxSessions + 1)..(NumUsers + MaxSessions + NumPollers)
\* The task that polls when one task does.
Poller == CHOOSE p \in Pollers : \A q \in Pollers : p <= q

MetaChars == {"manufacturer", "model", "fw", "zigbee_address", "light_name"}
SubOrder == <<"power", "brightness", "colour_temp", "colour_xy">>
Chars == MetaChars \cup {SubOrder[i] : i \in 1..4}

\* Service tables a device may expose when a session is opened.
FullTable == Chars
BasicTable == {"manufacturer", "light_name", "power"}
ServiceTables == {FullTable, BasicTable}

\* platform.system()
Platforms == {"Linux", "Darwin", "Windows"}
\* self._ble_device.details["props"]: missing, or its "Paired" entry.
PairedProps == {"no_props", "True", "False", "absent"}
\* What a transport call can raise.
RawErrors == {"TimeoutError", "BleakError", "OtherError"}
\* The functions the application may register.
CallbackIds == 1..MaxCallbacks

IdleProc == [pc |-> "idle", op |-> "none", tgt |-> None, idx |-> 0]
\* A task that is in no poll_state, _read_gatt or _write_gatt.
NoIo == [poll |-> FALSE, notify |-> FALSE, changed |-> FALSE, ci |-> 0,
         gop |-> "none", char |-> "none", att |-> 0, calls |-> 0, ios |-> 0,
         fails |-> 0, cfails |-> 0, last |-> "none", val |-> 0]
NewSess == [st |-> "unused", notify |-> FALSE, why |-> "none",
            paired |-> FALSE, disc |-> FALSE, subs |-> {}, cut |-> FALSE]
SeqPcs == {"c_open", "c_pair", "c_pair_delay", "c_sub"}

\* What the last step did, as its caller or the log sees it: the operation
\* that ended (kind) and how (res, raised from cause), the step it ended in
\* and what the transport had raised there (raw), the callbacks that were
\* invoked and the tasks that were created.
Event(kind, res, cause, step, raw, ran, spawn) ==
    [kind |-> kind, res |-> res, cause |-> cause, step |-> step, raw |-> raw,
     ran |-> ran, spawn |-> spawn,
     att |-> 0, calls |-> 0, ios |-> 0, fails |-> 0, cfails |-> 0, val |-> 0,
     cb |-> "not_run", notify |-> FALSE, changed |-> FALSE, seen |-> 0,
     arg |-> 0, order |-> <<>>, raised |-> 0, chk |-> "none",
     auth |-> "none", darwin |-> FALSE, got |-> <<>>, prev |-> 0,
     diff |-> FALSE, over |-> {}, answered |-> FALSE, reply |-> 0,
     last |-> <<>>, fresh |-> FALSE]
\* The end of a poll, a read or a write, or a push notification. i: the
\* task's poll and retry context, of which the event keeps the attempts made
\* (att), the connect calls (calls) and transport operations (ios) they
\* issued, the attempts that failed (fails) and those that failed in connect
\* (cfails), and the poll's arguments and changed flag; val: the value
\* concerned; cb: whether the callbacks were invoked, and under which state
\* of the state-update lock. An event of a push or of a poll that invoked the
\* callbacks also keeps what the callbacks found in the Mirror field of the
\* characteristic concerned (seen). An event of a setter that has made its
\* payload keeps the argument it was called with (arg).
IoEvent(kind, res, cause, step, raw, ran, i, val, cb) ==
    [Event(kind, res, cause, step, raw, ran, 0) EXCEPT
        !.att = i.att, !.calls = i.calls, !.ios = i.ios, !.fails = i.fails,
        !.cfails = i.cfails, !.val = val, !.cb = cb, !.notify = i.notify,
        !.changed = i.changed]
\* A step that ends no operation and runs no callback.
Quiet == Event("step", "none", "none", "none", "none", 0, 0)

St == [proc |-> proc, lock |-> connection_lock, client |-> client, sess |-> sess,
       nsess |-> nsess, services |-> deviceServices, mirror |-> mirror,
       expect |-> expect_disconnect, attempts |-> connection_attempts,
       callbacks |-> state_changed_callbacks, ev |-> ev,
       slock |-> state_update_lock, io |-> io]

Set(S) ==
    /\ proc' = S.proc
    /\ connection_lock' = S.lock
    /\ client' = S.client
    /\ sess' = S.sess
    /\ nsess' = S.nsess
    /\ deviceServices' = S.services
    /\ mirror' = S.mirror
    /\ expect_disconnect' = S.expect
    /\ connection_attempts' = S.attempts
    /\ state_changed_callbacks' = S.callbacks
    /\ ev' = S.ev
    /\ state_update_lock' = S.slock
    /\ io' = S.io

\* A step is taken only while the attempt counter stays within its cap.
Take(S) ==
    /\ S.attempts <= AttemptsCap
    /\ Set(S)

\* ------------------------------------------------------------ properties
\* HueBleLight.connected
connected(S) == S.client # None /\ S.sess[S.client].st = "connected"

\* HueBleLight.authenticated: "True", "False" or "None".
authenticated(plat, prop) ==
    IF plat # "Linux" THEN "None"
    ELSE IF prop = "no_props" THEN "None"
    ELSE IF prop = "True" THEN "True"
    ELSE IF prop = "False" THEN "False"
    ELSE "None"

\* What pair() can see of its environment: whether the platform is MacOS and
\* what authenticated returns, over every platform and every "Paired" entry.
PairViews ==
    {[darwin |-> plat = "Darwin", auth |-> authenticated(plat, prop)] :
        plat \in Platforms, prop \in PairedProps}

supports_on_off(m) == m.power_on # NoneS
supports_brightness(m) == m.brightness # NoneI
supports_colour_temp(m) == m.colour_temp # NoneI
supports_colour_xy(m) == m.colour_xy # NoneXY

Supports(m, c) ==
    IF c = "power" THEN supports_on_off(m)
    ELSE IF c = "brightness" THEN supports_brightness(m)
    ELSE IF c = "colour_temp" THEN supports_colour_temp(m)
    ELSE supports_colour_xy(m)

\* ------------------------------------------------------------- callbacks
\* What one run of the callbacks can meet: no callback raises (0), or the
\* callback at position i is the first to raise.
Raisers(cbs) == 0..Len(cbs)

\* No callback is run.
NotRun == [ran |-> 0, res |-> "ok", order |-> <<>>, raised |-> 0]

\* The functions a run has invoked, in the order of the calls, and the
\* position of the one that raised, kept in the event of the step.
Invoked(e, r) == [e EXCEPT !.order = r.order, !.raised = r.raised]

\* Callbacks that go on after one of them has raised and raise at the end.
RunCallbacksAll(cbs, fr) ==
    [ran |-> Len(cbs),
     res |-> IF fr = 0 THEN "ok" ELSE "CallbackError",
     order |-> cbs,
     raised |-> fr]

\* _run_state_changed_callbacks: the callbacks run in order until one raises
\* (fr: the position of the first that does, 0 when none does).
RunCallbacks(cbs, fr) ==
    [ran |-> IF fr = 0 THEN Len(cbs) ELSE fr,
     res |-> IF fr = 0 THEN "ok" ELSE "CallbackError",
     order |-> SubSeq(cbs, 1, IF fr = 0 THEN Len(cbs) ELSE fr),
     raised |-> fr]

\* ------------------------------------------------- connect: error layers
\* except Exception -> InitialConnectionError (the transport open).
OpenRaise(k) == "InitialConnectionError"

\* A pair() whose handlers are missing: every error leaves it as it is.
PairRaisePassThrough(k) == k

\* pair(): except asyncio.TimeoutError / except BleakError -> PairingError;
\* anything else leaves pair() as it is.
PairRaise(k) ==
    IF k \in {"TimeoutError", "BleakError"} THEN "PairingError" ELSE k

\* except Exception -> ServicesError (discovery and subscription).
ServicesRaise(k) == "ServicesError"

\* except asyncio.TimeoutError -> Exception (the connection_timeout scope).
AttemptTimeoutRaise(k) == "Exception"

\* A connect() with the lock-timeout handler alone: other errors leave it
\* unwrapped.
ConnectRaiseTimeoutOnly(k) ==
    IF k = "TimeoutError" THEN [res |-> "ConnectionError", cause |-> k]
    ELSE [res |-> k, cause |-> "none"]

\* The outer handlers of connect(): everything becomes a ConnectionError
\* raised from the error it wraps.
ConnectRaise(k) == [res |-> "ConnectionError", cause |-> k]

\* A connect() that takes back its attempt when the sequence fails.
ConnectFailResets(S, p, k, step, raw) ==
    [S EXCEPT !.proc[p] = IdleProc,
              !.lock = IF @ = p THEN None ELSE @,
              !.attempts = IF step = "lock" \/ @ = 0 THEN @ ELSE @ - 1,
              !.ev = Event("connect_fail", ConnectRaise(k).res,
                           ConnectRaise(k).cause, step, raw, 0, 0)]

\* connect() leaves with error k, raised at `step` from the transport's raw:
\* the lock is released by its context manager, nothing else is undone.
ConnectFail(S, p, k, step, raw) ==
    [S EXCEPT !.proc[p] = IdleProc,
              !.lock = IF @ = p THEN None ELSE @,
              !.ev = Event("connect_fail", ConnectRaise(k).res,
                           ConnectRaise(k).cause, step, raw, 0, 0)]

\* ------------------------------------------------ connect: the sequence
\* End of the sequence: the flags are set inside the lock, the callbacks run
\* after both context managers are left (rc.run: the run_callbacks argument,
\* rc.fr: the first callback that raises).
FinishSequence(S, p, rc) ==
    LET r == IF rc.run THEN RunCallbacks(S.callbacks, rc.fr) ELSE NotRun
    IN [S EXCEPT !.proc[p] = IdleProc,
                 !.lock = IF @ = p THEN None ELSE @,
                 !.expect = FALSE,
                 !.attempts = 0,
                 !.ev = Invoked(Event("connect_ret", r.res, "sequence", "done",
                                      "none", r.ran, 0), r)]

\* The next characteristic after position i that _subscribe_to_light
\* subscribes to, 0 when there is none.
NextSub(m, i) ==
    LET c == {j \in (i + 1)..4 : Supports(m, SubOrder[j])}
    IN IF c = {} THEN 0 ELSE CHOOSE j \in c : \A k \in c : j <= k

\* _subscribe_to_light from position i on: start_notify on self._client.
Subscribe(S, p, i, rc) ==
    LET j == NextSub(S.mirror, i)
    IN IF j = 0 THEN FinishSequence(S, p, rc)
       ELSE IF S.client = None
            THEN ConnectFail(S, p, ServicesRaise("OtherError"), "subscribe",
                             "OtherError")
       ELSE [S EXCEPT !.proc[p].pc = "c_sub", !.proc[p].idx = j,
                      !.proc[p].tgt = S.client, !.ev = Quiet]

\* A discovery that takes the colour features for present on every device.
DiscoverColourAlways(m, tbl) ==
    [manufacturer |-> IF "manufacturer" \in tbl THEN DEFAULT_METADATA_STRING
                      ELSE m.manufacturer,
     model |-> IF "model" \in tbl THEN DEFAULT_METADATA_STRING ELSE m.model,
     fw |-> IF "fw" \in tbl THEN DEFAULT_METADATA_STRING ELSE m.fw,
     zigbee_address |-> IF "zigbee_address" \in tbl THEN DEFAULT_METADATA_STRING
                        ELSE m.zigbee_address,
     light_name |-> IF "light_name" \in tbl THEN DEFAULT_METADATA_STRING
                    ELSE m.light_name,
     power_on |-> IF "power" \in tbl THEN "False" ELSE NoneS,
     brightness |-> IF "brightness" \in tbl THEN 0 ELSE NoneI,
     colour_temp |-> 0,
     colour_xy |-> <<0, 0>>]

\* _determine_services
Discover(m, tbl) ==
    [manufacturer |-> IF "manufacturer" \in tbl THEN DEFAULT_METADATA_STRING
                      ELSE m.manufacturer,
     model |-> IF "model" \in tbl THEN DEFAULT_METADATA_STRING ELSE m.model,
     fw |-> IF "fw" \in tbl THEN DEFAULT_METADATA_STRING ELSE m.fw,
     zigbee_address |-> IF "zigbee_address" \in tbl THEN DEFAULT_METADATA_STRING
                        ELSE m.zigbee_address,
     light_name |-> IF "light_name" \in tbl THEN DEFAULT_METADATA_STRING
                    ELSE m.light_name,
     power_on |-> IF "power" \in tbl THEN "False" ELSE NoneS,
     brightness |-> IF "brightness" \in tbl THEN 0 ELSE NoneI,
     colour_temp |-> IF "colour_temp" \in tbl THEN 0 ELSE NoneI,
     colour_xy |-> IF "colour_xy" \in tbl THEN <<0, 0>> ELSE NoneXY]

\* connect() after pair() has returned: discovery, then the subscriptions.
\* dOk: whether the service table of self._client can be read.
AfterPair(S, p, dOk, rc) ==
    IF S.client = None
    THEN ConnectFail(S, p, ServicesRaise("OtherError"), "discover", "OtherError")
    ELSE LET P == [S EXCEPT !.sess[S.client].paired = TRUE]
         IN IF ~dOk
            THEN ConnectFail(P, p, ServicesRaise("BleakError"), "discover",
                             "BleakError")
            ELSE Subscribe([P EXCEPT !.mirror = Discover(S.mirror, S.services),
                                     !.sess[S.client].disc = TRUE], p, 0, rc)

\* pair() as connect() calls it, right after the transport open.
PairStep(S, p, view, dOk, rc) ==
    IF view.auth = "True" \/ view.darwin
    THEN AfterPair(S, p, dOk, rc)
    ELSE [S EXCEPT !.proc[p].pc = "c_pair", !.proc[p].tgt = S.client,
                   !.ev = Quiet]

\* Inside the lock: the second connected check, then the sequence starts.
EnterSequence(S, p) ==
    IF connected(S)
    THEN [S EXCEPT !.proc[p] = IdleProc,
                   !.lock = IF @ = p THEN None ELSE @,
                   !.ev = Event("connect_ret", "ok", "after_wait", "lock",
                                "none", 0, 0)]
    ELSE [S EXCEPT !.proc[p].pc = "c_open",
                   !.lock = p,
                   !.attempts = @ + 1,
                   !.ev = Quiet]

\* A connection lock that never makes a task wait.
LockFreeAlways(S) == TRUE

\* Whether a task may take the connection lock.
LockFree(S) == S.lock = None

\* A connect() without the connected check in front of the lock.
ConnectCallNoEntryCheck(S, p, o) ==
    IF LockFree(S) THEN EnterSequence([S EXCEPT !.proc[p].op = o], p)
    ELSE [S EXCEPT !.proc[p].op = o, !.proc[p].pc = "c_wait", !.ev = Quiet]

\* connect() called by task p as part of operation o.
ConnectCall(S, p, o) ==
    IF connected(S)
    THEN [S EXCEPT !.proc[p] = IdleProc,
                   !.ev = Event("connect_ret", "ok", "already", "entry",
                                "none", 0, 0)]
    ELSE IF LockFree(S) THEN EnterSequence([S EXCEPT !.proc[p].op = o], p)
    ELSE [S EXCEPT !.proc[p].op = o, !.proc[p].pc = "c_wait", !.ev = Quiet]

\* establish_connection has returned or raised for task p.
\* out: "ok", "dead" (a client that is no longer connected) or what it raised;
\* tbl: the service table of the new session.
OpenResult(S, p, out, tbl, view, dOk, rc) ==
    LET s == S.nsess + 1
    IN IF out = "ok"
       THEN PairStep([S EXCEPT !.nsess = s, !.client = s, !.services = tbl,
                               !.sess[s].st = "connected"],
                     p, view, dOk, rc)
       ELSE IF out = "dead"
       THEN ConnectFail([S EXCEPT !.nsess = s, !.client = s, !.services = tbl,
                                  !.sess[s].st = "closed"],
                        p, OpenRaise("Exception"), "open", "Exception")
       ELSE ConnectFail(S, p, OpenRaise(out), "open", out)

\* self._client.pair() has returned or raised (TimeoutError: DEFAULT_PAIR_TIMEOUT).
PairResult(S, p, out) ==
    IF out = "ok"
    THEN [S EXCEPT !.proc[p].pc = "c_pair_delay", !.ev = Quiet]
    ELSE ConnectFail(S, p, PairRaise(out), "pair", out)

\* After asyncio.sleep(DEFAULT_PAIR_DELAY): the status is checked again.
PairDelayResult(S, p, view, dOk, rc) ==
    IF view.auth = "False"
    THEN ConnectFail(S, p, PairRaise("Exception"), "pair", "Exception")
    ELSE AfterPair(S, p, dOk, rc)

\* start_notify has returned or raised.
SubscribeResult(S, p, out, rc) ==
    IF out = "ok"
    THEN Subscribe([S EXCEPT !.sess[S.proc[p].tgt].subs =
                                 @ \cup {SubOrder[S.proc[p].idx]}],
                   p, S.proc[p].idx, rc)
    ELSE ConnectFail(S, p, ServicesRaise(out), "subscribe", out)

\* A timeout scope of connect() expires while the task is suspended in the
\* sequence: connection_timeout, or wait_timeout around it.
TimeoutResult(S, p, which) ==
    LET step == IF S.proc[p].pc = "c_open" THEN "open_timeout"
                ELSE "sequence_timeout"
    IN IF which = "connection_timeout"
       THEN ConnectFail(S, p, AttemptTimeoutRaise("TimeoutError"), step,
                        "TimeoutError")
       ELSE ConnectFail(S, p, "TimeoutError", step, "TimeoutError")

\* ------------------------------------------------------------ disconnect
\* disconnect() returns to its caller: reconnect() goes on to its sleep.
DisconnectReturn(S, p, o) ==
    [S EXCEPT !.proc[p] = IF o = "reconnect"
                          THEN [IdleProc EXCEPT !.pc = "r_sleep", !.op = o]
                          ELSE IdleProc,
              !.ev = Event("disconnect_ret", "ok", "none", o, "none", 0, 0)]

\* A disconnect() that forgets what the light supports.
DisconnectCallForgets(S, p, o) ==
    LET E == [S EXCEPT !.expect = TRUE, !.mirror.brightness = NoneI,
                       !.mirror.colour_temp = NoneI]
    IN IF S.client = None THEN DisconnectReturn(E, p, o)
       ELSE [E EXCEPT !.proc[p] = [IdleProc EXCEPT !.pc = "d_await", !.op = o,
                                                   !.tgt = S.client],
                      !.ev = Quiet]

\* disconnect() up to its await, called by task p as part of operation o.
DisconnectCall(S, p, o) ==
    LET E == [S EXCEPT !.expect = TRUE]
    IN IF S.client = None THEN DisconnectReturn(E, p, o)
       ELSE [E EXCEPT !.proc[p] = [IdleProc EXCEPT !.pc = "d_await", !.op = o,
                                                   !.tgt = S.client],
                      !.ev = Quiet]

\* Which outcomes of self._client.disconnect() disconnect() goes on from:
\* a return, and the two errors it catches and logs.
DisconnectCaught(out) == out \in {"ok", "TimeoutError", "BleakError"}

\* self._client.disconnect() has returned or raised.
DisconnectResult(S, p, out) ==
    IF DisconnectCaught(out)
    THEN DisconnectReturn([S EXCEPT !.client = None], p, S.proc[p].op)
    ELSE [S EXCEPT !.proc[p] = IdleProc,
                   !.ev = Event("disconnect_fail", out, "none", S.proc[p].op,
                                out, 0, 0)]

\* The transport closes the link of session s and will deliver the disconnect
\* notification. why: the operation whose disconnect() closed it ("disconnect",
\* "reconnect"), or "drop" when the link was lost.
\* A closed link keeps no pairing and no subscription.
CloseLink(S, s, why) ==
    [S EXCEPT !.sess[s] = [NewSess EXCEPT !.st = "closed", !.notify = TRUE,
                                          !.why = why],
              !.ev = Quiet]

\* A _disconnect_callback that runs the callbacks of an unexpected disconnect
\* and creates no reconnect task.
CurrentClientDisconnectedNoTask(S, s, fr) ==
    LET r == RunCallbacks(S.callbacks, fr)
    IN [S EXCEPT !.sess[s].notify = FALSE, !.sess[s].why = "none",
                 !.ev = Event("notify", IF S.expect THEN "expected" ELSE r.res,
                              "none", S.sess[s].why, "none",
                              IF S.expect THEN 0 ELSE r.ran, 0)]

\* What _disconnect_callback does once the notification is known to come
\* from the current client; fr: the first callback that raises.
CurrentClientDisconnected(S, s, fr) ==
    LET N == [S EXCEPT !.sess[s].notify = FALSE, !.sess[s].why = "none"]
        r == RunCallbacks(S.callbacks, fr)
        why == S.sess[s].why
    IN IF S.expect
       THEN [N EXCEPT !.ev = Event("notify", "expected", "none", why, "none", 0, 0)]
       ELSE IF r.res # "ok"
       THEN [N EXCEPT !.ev = Invoked(Event("notify", r.res, "none", why,
                                           "none", r.ran, 0), r)]
       ELSE IF DEFAULT_MAX_RECONNECT_ATTEMPTS = -1
               \/ S.attempts < DEFAULT_MAX_RECONNECT_ATTEMPTS
       THEN [N EXCEPT !.proc[TaskOf(s)] =
                          [IdleProc EXCEPT !.pc = "r_start", !.op = "reconnect"],
                      !.ev = Invoked(Event("notify", "reconnect", "none", why,
                                           "none", r.ran, 1), r)]
       ELSE [N EXCEPT !.ev = Invoked(Event("notify", "ceiling", "none", why,
                                           "none", r.ran, 0), r)]

\* A _disconnect_callback without the `client != self._client` test.
DisconnectCallbackNoStaleGuard(S, s, fr) == CurrentClientDisconnected(S, s, fr)

\* _disconnect_callback(client = s); fr: the first callback that raises.
DisconnectCallback(S, s, fr) ==
    LET N == [S EXCEPT !.sess[s].notify = FALSE, !.sess[s].why = "none"]
        why == S.sess[s].why
    IN IF s # S.client
       THEN [N EXCEPT !.ev = Event("notify", "stale", "none", why, "none", 0, 0)]
       ELSE CurrentClientDisconnected(S, s, fr)

\* list.remove: the first equal element goes.
RemoveFirst(cbs, k) ==
    LET i == CHOOSE i \in 1..Len(cbs) :
                 cbs[i] = k /\ \A j \in 1..(i - 1) : cbs[j] # k
    IN SubSeq(cbs, 1, i - 1) \o SubSeq(cbs, i + 1, Len(cbs))

\* The run_callbacks argument of connect() (reconnect() leaves the default,
\* DEFAULT_ON_CONNECT_RUN_CALLBACKS) and what the callbacks do when run.
RunCallbackArgs(S, p) ==
    {[run |-> TRUE, fr |-> f] : f \in Raisers(S.callbacks)}
    \cup IF S.proc[p].op = "connect" THEN {[run |-> FALSE, fr |-> 0]} ELSE {}

\* ------------------------------------------------ values and decoders
\* The order in which poll_state reads the characteristics.
PollOrder == <<"manufacturer", "model", "fw", "zigbee_address", "light_name",
               "power", "brightness", "colour_temp", "colour_xy">>

\* The Mirror field a characteristic is stored in.
Field(c) == IF c = "power" THEN "power_on" ELSE c

\* Payloads the device may return or push for a characteristic. Text is a
\* string in which "~" stands for a non-ASCII byte; numbers are byte
\* sequences.
RawValues(c) ==
    IF c \in {"manufacturer", "model", "fw", "light_name"} THEN {"", "Hue~"}
    ELSE IF c = "zigbee_address" THEN {"0017"}
    ELSE IF c = "power" THEN {<<0>>, <<1>>}
    ELSE IF c = "brightness" THEN {<<1>>, <<254>>}
    ELSE IF c = "colour_temp" THEN {<<153, 0>>, <<244, 1>>}
    ELSE {<<0, 0, 0, 0>>, <<255, 255, 255, 255>>}

\* bytes.decode("ascii", "ignore")
AsciiIgnore(raw) == IF raw = "Hue~" THEN "Hue" ELSE raw
\* bytes.hex(sep=":")
HexSep(raw) == IF raw = "0017" THEN "00:17" ELSE raw
\* Two bytes read high byte first.
LittleSwapped(lo, hi) == hi + 256 * lo
\* int.from_bytes(data, "little") of two bytes, unpack("<H")
Little(lo, hi) == lo + 256 * hi

\* What poll_X and the report handlers make of a payload. An XY coordinate
\* x / 0xFFFF is kept as its numerator x.
Decode(c, raw) ==
    IF c \in {"manufacturer", "model", "fw", "light_name"} THEN AsciiIgnore(raw)
    ELSE IF c = "zigbee_address" THEN HexSep(raw)
    ELSE IF c = "power" THEN (IF raw[1] # 0 THEN "True" ELSE "False")
    ELSE IF c = "brightness" THEN raw[1]
    ELSE IF c = "colour_temp" THEN Little(raw[1], raw[2])
    ELSE <<Little(raw[1], raw[2]), Little(raw[3], raw[4])>>

\* The getters: manufacturer .. name_in_app, power_state return the field;
\* brightness, colour_temp, colour_xy return None when unsupported.
Getter(m, c) ==
    IF c = "brightness" THEN (IF supports_brightness(m) THEN m.brightness ELSE NoneI)
    ELSE IF c = "colour_temp"
         THEN (IF supports_colour_temp(m) THEN m.colour_temp ELSE NoneI)
    ELSE IF c = "colour_xy"
         THEN (IF supports_colour_xy(m) THEN m.colour_xy ELSE NoneXY)
    ELSE m[Field(c)]

\* Tests of poll_state that take every field by its truth value.
PollSupportedTruthy(m, c) ==
    IF c \in MetaChars THEN m[c] \notin {NoneS, ""}
    ELSE IF c = "power" THEN m.power_on = "True"
    ELSE Supports(m, c) /\ m[c] \notin {0, <<0, 0>>}

\* The tests of poll_state: `if self._manufacturer:` (a string that is
\* neither None nor empty) for the metadata, supports_X for the features.
PollSupported(m, c) ==
    IF c \in MetaChars THEN m[c] \notin {NoneS, ""} ELSE Supports(m, c)

\* The next characteristic after position i that poll_state reads, 0 when
\* there is none.
NextPoll(m, i) ==
    LET c == {j \in (i + 1)..Len(PollOrder) : PollSupported(m, PollOrder[j])}
    IN IF c = {} THEN 0 ELSE CHOOSE j \in c : \A k \in c : j <= k

\* max_attempts of _read_gatt and of _write_gatt.
MaxAttempts(op) ==
    IF op = "read" THEN DEFAULT_READ_GATT_MAX_ATTEMPTS
    ELSE DEFAULT_WRITE_GATT_MAX_ATTEMPTS

\* ------------------------------------------- _read_gatt and _write_gatt
\* The context managers of the locks task p holds are left.
ReleaseLocks(S, p) ==
    [S EXCEPT !.lock = IF @ = p THEN None ELSE @,
              !.slock = IF @ = p THEN None ELSE @]

\* An exception that leaves poll_state without leaving its locks.
OpFailKeepsLocks(S, p, res, cause, raw) ==
    LET i == S.io[p]
    IN [S EXCEPT
           !.proc[p] = IdleProc,
           !.io[p] = NoIo,
           !.ev = IoEvent(IF i.poll THEN "poll_fail" ELSE "gatt_fail", res,
                          cause, i.char, raw, 0, i, i.val, "not_run")]

\* poll_state, or the setter, leaves with error res raised from cause; raw:
\* the error of the attempt that was running.
OpFail(S, p, res, cause, raw) ==
    LET i == S.io[p]
    IN [ReleaseLocks(S, p) EXCEPT
           !.proc[p] = IdleProc,
           !.io[p] = NoIo,
           !.ev = IoEvent(IF i.poll THEN "poll_fail" ELSE "gatt_fail", res,
                          cause, i.char, raw, 0, i, i.val, "not_run")]

\* After the loop: raise ReadWriteError(...) from last_error.
GattRaise(S, p, err) == OpFail(S, p, "ReadWriteError", S.io[p].last, err)

\* self._client.read_gatt_char / write_gatt_char is awaited.
StartIo(S, p) ==
    [S EXCEPT !.proc[p] = [IdleProc EXCEPT !.pc = "g_io", !.op = S.io[p].gop,
                                           !.tgt = S.client],
              !.io[p].ios = @ + 1,
              !.ev = Quiet]

\* A pass of the loop that goes to the transport without calling connect().
GattAttemptNoConnect(S, p) ==
    StartIo([S EXCEPT !.io[p].att = @ + 1], p)

\* One pass of the loop up to its first suspension: connect(), then the
\* transport operation when connect() returned at once.
GattAttempt(S, p) ==
    LET A == [S EXCEPT !.io[p].att = @ + 1, !.io[p].calls = @ + 1]
        C == ConnectCall(A, p, A.io[p].gop)
    IN IF C.proc[p].pc = "idle" THEN StartIo(C, p) ELSE C

\* A retry loop that gives up at the first failure.
AttemptFailedNoRetry(S, p, err, inConnect) ==
    GattRaise([S EXCEPT !.io[p].last = err, !.io[p].fails = @ + 1], p, err)

\* except Exception as e: last_error = e, then the next pass of the loop or
\* the end of it. inConnect: the error came out of connect().
AttemptFailed(S, p, err, inConnect) ==
    LET F == [S EXCEPT !.io[p].last = err,
                       !.io[p].fails = @ + 1,
                       !.io[p].cfails = IF inConnect THEN @ + 1 ELSE @]
    IN IF S.io[p].att < MaxAttempts(S.io[p].gop)
       THEN GattAttempt(F, p)
       ELSE GattRaise(F, p, err)

\* The connect() that task p called has moved S0 to S1: when p called it from
\* a read or a write and connect() has ended, the attempt goes on.
Resume(S0, S1, p) ==
    IF S0.io[p].gop = "none" \/ S1.proc[p].pc # "idle" THEN S1
    ELSE IF S1.ev.kind = "connect_ret" /\ S1.ev.res = "ok"
    THEN IF S1.client = None
         THEN AttemptFailed(S1, p, "OtherError", FALSE)
         ELSE StartIo(S1, p)
    ELSE AttemptFailed(S1, p, S1.ev.res, TRUE)

\* _read_gatt / _write_gatt is called for characteristic c; v: the value
\* the caller keeps across the call (the previous value of a poll, the
\* payload of a write).
GattStart(S, p, op, c, v) ==
    GattAttempt([S EXCEPT !.io[p].gop = op, !.io[p].char = c, !.io[p].att = 0,
                          !.io[p].calls = 0, !.io[p].ios = 0,
                          !.io[p].fails = 0, !.io[p].cfails = 0,
                          !.io[p].last = "none", !.io[p].val = v], p)

\* ------------------------------------------------------------ poll_state
\* A poll_state that runs the callbacks before it leaves the state lock.
PollFinishInsideLock(S, p, fr) ==
    LET i == S.io[p]
        run == i.notify /\ i.changed
        r == IF run THEN RunCallbacks(S.callbacks, fr) ELSE [ran |-> 0, res |-> "ok"]
    IN [S EXCEPT !.slock = IF @ = p THEN None ELSE @,
                 !.proc[p] = IdleProc,
                 !.io[p] = NoIo,
                 !.ev = [IoEvent("poll_ret", r.res, "none", i.char, "none",
                                 r.ran, i, i.changed,
                                 IF ~run THEN "not_run"
                                 ELSE IF S.slock = p THEN "lock_held"
                                 ELSE "lock_released")
                         EXCEPT !.seen = IF run THEN S.mirror[Field(i.char)]
                                         ELSE 0]]

\* The reads are over: the state lock is left, then the callbacks run when
\* asked for and something changed. fr: the first callback that raises.
PollFinish(S, p, fr) ==
    LET i == S.io[p]
        R == [S EXCEPT !.slock = IF @ = p THEN None ELSE @]
        run == i.notify /\ i.changed
        r == IF run THEN RunCallbacks(S.callbacks, fr) ELSE NotRun
    IN [R EXCEPT !.proc[p] = IdleProc,
                 !.io[p] = NoIo,
                 !.ev = [IoEvent("poll_ret", r.res, "none", i.char, "none",
                                 r.ran, i, i.changed,
                                 IF ~run THEN "not_run"
                                 ELSE IF R.slock = p THEN "lock_held"
                                 ELSE "lock_released")
                         EXCEPT !.seen = IF run THEN S.mirror[Field(i.char)]
                                         ELSE 0,
                                !.order = r.order, !.raised = r.raised]]

\* poll_state from position i of its tests on.
PollNext(S, p, i, fr) ==
    LET j == NextPoll(S.mirror, i)
    IN IF j = 0 THEN PollFinish(S, p, fr)
       ELSE GattStart([S EXCEPT !.io[p].ci = j], p, "read", PollOrder[j],
                      Getter(S.mirror, PollOrder[j]))

\* A poll_X that compares what it read with the field as it is when the
\* read returns.
PollAfterReadCompareNow(S, p, raw, fr) ==
    LET i == S.io[p]
        d == Decode(i.char, raw)
        M == [S EXCEPT !.mirror[Field(i.char)] = d,
                       !.io[p].changed = @ \/ (S.mirror[Field(i.char)] # d)]
        N == PollNext(M, p, i.ci, fr)
    IN IF N.ev.kind = "poll_ret" THEN [N EXCEPT !.ev.raw = raw]
       ELSE [N EXCEPT !.ev = IoEvent("read_ret", "ok", "none", i.char, raw, 0,
                                     i, d, "not_run")]

\* poll_X(write_state=True) has its payload: decode, store, compare with the
\* value the getter returned before the read.
PollAfterRead(S, p, raw, fr) ==
    LET i == S.io[p]
        d == Decode(i.char, raw)
        M == [S EXCEPT !.mirror[Field(i.char)] = d,
                       !.io[p].changed = @ \/ (i.val # d)]
        N == PollNext(M, p, i.ci, fr)
    IN IF N.ev.kind = "poll_ret" THEN [N EXCEPT !.ev.raw = raw]
       ELSE [N EXCEPT !.ev = IoEvent("read_ret", "ok", "none", i.char, raw, 0,
                                     i, d, "not_run")]

\* Inside the state-update lock.
PollEnter(S, p, fr) == PollNext([S EXCEPT !.slock = p], p, 0, fr)

\* A poll_state that enters its reads whether or not the lock is held.
PollCallNoLock(S, p, notify, fr) ==
    PollEnter([S EXCEPT !.io[p] = [NoIo EXCEPT !.poll = TRUE,
                                               !.notify = notify]], p, fr)

\* poll_state(run_callbacks_if_changed = notify) is called by task p.
PollCall(S, p, notify, fr) ==
    LET B == [S EXCEPT !.io[p] = [NoIo EXCEPT !.poll = TRUE, !.notify = notify]]
    IN IF S.slock = None THEN PollEnter(B, p, fr)
       ELSE [B EXCEPT !.proc[p].pc = "p_wait", !.ev = Quiet]

\* A setter that stores what it wrote once the transport has acknowledged it.
WriteReturnOptimistic(S, p) ==
    LET i == S.io[p]
    IN [S EXCEPT !.proc[p] = IdleProc,
                 !.io[p] = NoIo,
                 !.mirror[Field(i.char)] = Decode(i.char, i.val),
                 !.ev = IoEvent("write_ret", "ok", "none", i.char, "none", 0, i,
                                i.val, "not_run")]

\* A setter returns: _write_gatt returned what write_gatt_char returned.
WriteReturn(S, p) ==
    LET i == S.io[p]
    IN [S EXCEPT !.proc[p] = IdleProc,
                 !.io[p] = NoIo,
                 !.ev = IoEvent("write_ret", "ok", "none", i.char, "none", 0, i,
                                i.val, "not_run")]

\* read_gatt_char / write_gatt_char has returned (raw: the payload read) or
\* raised.
IoResult(S, p, out, raw, fr) ==
    LET I == [S EXCEPT !.proc[p] = IdleProc]
    IN IF out # "ok" THEN AttemptFailed(I, p, out, FALSE)
       ELSE IF S.io[p].gop = "read" THEN PollAfterRead(I, p, raw, fr)
       ELSE WriteReturn(I, p)

\* attempt_timeout expires while the attempt is suspended in connect() or in
\* the transport operation: the cancellation leaves connect() through its
\* context managers and becomes a TimeoutError at the attempt's scope.
AttemptTimeoutResult(S, p) ==
    AttemptFailed([S EXCEPT !.proc[p] = IdleProc,
                            !.lock = IF @ = p THEN None ELSE @],
                  p, "TimeoutError", FALSE)

\* A poll_state that turns the expiry of its timeout into a library error.
PollTimeoutWrapped(S, p) ==
    OpFail(S, p, "ConnectionError", "TimeoutError", "TimeoutError")

\* The timeout of poll_state expires while the poll is suspended.
PollTimeoutResult(S, p) == OpFail(S, p, "TimeoutError", "none", "TimeoutError")

\* A report handler that runs the callbacks before it stores the payload.
ReportCallbacksFirst(S, c, raw, fr) ==
    LET d == Decode(c, raw)
        r == RunCallbacks(S.callbacks, fr)
    IN [S EXCEPT !.mirror[Field(c)] = d,
                 !.ev = [IoEvent("push", r.res, "none", c, raw, r.ran, NoIo,
                                 d, "inline")
                         EXCEPT !.seen = S.mirror[Field(c)]]]

\* A report handler that drops the payload while a poll holds the state lock.
ReportUnlessPolling(S, c, raw, fr) ==
    LET r == RunCallbacks(S.callbacks, fr)
        d == Decode(c, raw)
    IN [S EXCEPT !.mirror[Field(c)] = IF S.slock = None THEN d ELSE @,
                 !.ev = IoEvent("push", r.res, "none", c, raw, r.ran, NoIo, d,
                                "inline")]

\* A report handler of _subscribe_to_light runs for characteristic c with
\* payload raw: the field is stored, then the callbacks run.
Report(S, c, raw, fr) ==
    LET d == Decode(c, raw)
        M == [S EXCEPT !.mirror[Field(c)] = d]
        r == RunCallbacks(M.callbacks, fr)
    IN [M EXCEPT !.ev = [IoEvent("push", r.res, "none", c, raw, r.ran, NoIo,
                                 d, "inline")
                         EXCEPT !.seen = M.mirror[Field(c)],
                                !.order = r.order, !.raised = r.raised]]

\* ------------------------------------------------------------------ Init
Init ==
    /\ proc = [p \in Procs |-> IdleProc]
    /\ connection_lock = None
    /\ client = None
    /\ sess = [s \in Sessions |-> NewSess]
    /\ nsess = 0
    /\ deviceServices = BasicTable
    /\ mirror = [manufacturer |-> NoneS, model |-> NoneS, fw |-> NoneS,
                 zigbee_address |-> NoneS, light_name |-> NoneS,
                 power_on |-> "False", brightness |-> NoneI,
                 colour_temp |-> NoneI, colour_xy |-> NoneXY]
    /\ expect_disconnect = TRUE
    /\ connection_attempts = 0
    /\ state_changed_callbacks = <<>>
    /\ ev = Event("init", "none", "none", "none", "none", 0, 0)
    /\ state_update_lock = None
    /\ io = [p \in Procs |-> NoIo]

\* --------------------------------------------------------------- actions
\* The attempt counter is capped: a sequence starts only below the cap.
MayCall(S) == connected(S) \/ ~LockFree(S) \/ S.attempts < AttemptsCap

Connect(p) ==
    /\ proc[p].pc = "idle"
    /\ MayCall(St)
    /\ Set(ConnectCall(St, p, "connect"))

AcquireLock(p) ==
    /\ proc[p].pc = "c_wait"
    /\ LockFree(St)
    /\ MayCall(St)
    /\ Take(Resume(St, EnterSequence(St, p), p))

\* Inside a read or a write the attempt's timeout (20 s) expires before the
\* timeouts of connect() (120 s, 30 s), which therefore only fire elsewhere.
WaitTimeout(p) ==
    /\ proc[p].pc = "c_wait"
    /\ io[p].gop = "none"
    /\ Set(ConnectFail(St, p, "TimeoutError", "lock", "TimeoutError"))

OpenDone(p) ==
    /\ proc[p].pc = "c_open"
    /\ \E out \in {"ok", "dead"} \cup RawErrors, tbl \in ServiceTables,
          view \in PairViews, dOk \in BOOLEAN,
          rc \in RunCallbackArgs(St, p) :
          /\ out \in {"ok", "dead"} => nsess < MaxSessions
          /\ Take(Resume(St, OpenResult(St, p, out, tbl, view, dOk, rc), p))

PairDone(p) ==
    /\ proc[p].pc = "c_pair"
    /\ \E out \in {"ok"} \cup RawErrors :
          /\ out = "ok" => sess[proc[p].tgt].st = "connected"
          /\ Take(Resume(St, PairResult(St, p, out), p))

PairDelayDone(p) ==
    /\ proc[p].pc = "c_pair_delay"
    /\ \E view \in PairViews, dOk \in BOOLEAN,
          rc \in RunCallbackArgs(St, p) :
          Take(Resume(St, PairDelayResult(St, p, view, dOk, rc), p))

SubscribeDone(p) ==
    /\ proc[p].pc = "c_sub"
    /\ \E out \in {"ok"} \cup RawErrors, rc \in RunCallbackArgs(St, p) :
          /\ out = "ok" => sess[proc[p].tgt].st = "connected"
          /\ Take(Resume(St, SubscribeResult(St, p, out, rc), p))

SequenceTimeout(p) ==
    /\ proc[p].pc \in SeqPcs
    /\ io[p].gop = "none"
    /\ \E which \in {"connection_timeout", "wait_timeout"} :
          Set(TimeoutResult(St, p, which))

Disconnect(p) ==
    /\ proc[p].pc = "idle"
    /\ Set(DisconnectCall(St, p, "disconnect"))

TransportClose(p) ==
    /\ proc[p].pc = "d_await"
    /\ sess[proc[p].tgt].st = "connected"
    /\ Set([CloseLink(St, proc[p].tgt, proc[p].op) EXCEPT
               !.proc[p].pc = "d_closed"])

DisconnectDone(p) ==
    /\ proc[p].pc \in {"d_await", "d_closed"}
    /\ \E out \in {"ok"} \cup RawErrors :
          /\ out = "ok" => (proc[p].pc = "d_closed"
                            \/ sess[proc[p].tgt].st # "connected")
          /\ out # "ok" => proc[p].pc = "d_await"
          /\ Set(DisconnectResult(St, p, out))

Reconnect(p) ==
    /\ proc[p].pc = "idle"
    /\ Set(DisconnectCall(St, p, "reconnect"))

ReconnectTaskStart(p) ==
    /\ proc[p].pc = "r_start"
    /\ Set(DisconnectCall(St, p, "reconnect"))

ReconnectWake(p) ==
    /\ proc[p].pc = "r_sleep"
    /\ MayCall(St)
    /\ Set(ConnectCall(St, p, "reconnect"))

LinkDrop(s) ==
    /\ sess[s].st = "connected"
    /\ Set(CloseLink(St, s, "drop"))

DisconnectNotification(s) ==
    /\ sess[s].notify
    /\ \E fr \in Raisers(state_changed_callbacks) :
          Set(DisconnectCallback(St, s, fr))

AddCallback ==
    /\ Len(state_changed_callbacks) < MaxCallbacks
    /\ \E k \in CallbackIds :
          Set([St EXCEPT !.callbacks = Append(@, k), !.ev = Quiet])

RemoveCallback ==
    \E k \in CallbackIds :
       /\ \E i \in 1..Len(state_changed_callbacks) : state_changed_callbacks[i] = k
       /\ Set([St EXCEPT !.callbacks = RemoveFirst(@, k), !.ev = Quiet])

Next ==
    \/ \E p \in Users : Connect(p)
    \/ \E p \in Users : Disconnect(p)
    \/ \E p \in Users : Reconnect(p)
    \/ \E p \in Procs : AcquireLock(p)
    \/ \E p \in Procs : WaitTimeout(p)
    \/ \E p \in Procs : OpenDone(p)
    \/ \E p \in Procs : PairDone(p)
    \/ \E p \in Procs : PairDelayDone(p)
    \/ \E p \in Procs : SubscribeDone(p)
    \/ \E p \in Procs : SequenceTimeout(p)
    \/ \E p \in Procs : TransportClose(p)
    \/ \E p \in Procs : DisconnectDone(p)
    \/ \E p \in Tasks : ReconnectTaskStart(p)
    \/ \E p \in Procs : ReconnectWake(p)
    \/ \E s \in Sessions : LinkDrop(s)
    \/ \E s \in Sessions : DisconnectNotification(s)
    \/ AddCallback
    \/ RemoveCallback

Spec == Init /\ [][Next]_vars

\* ------------------------------------------ polls, reads, writes, pushes
\* The characteristics the setters write, the arguments the application
\* passes, and the payloads the setters make of them.
WriteChars == {"light_name", "power", "brightness", "colour_temp", "colour_xy"}

SetArgs(c) ==
    IF c = "light_name" THEN {"Den"}
    ELSE IF c = "power" THEN {TRUE}
    ELSE IF c = "brightness" THEN {300}
    ELSE IF c = "colour_temp" THEN {100}
    ELSE {<<65535, 0>>}

\* A clamp without its lower limit.
ClampUpperOnly(x, lo, hi) == IF x > hi THEN hi ELSE x

Clamp(x, lo, hi) == IF x < lo THEN lo ELSE IF x > hi THEN hi ELSE x

\* set_light_name .. set_colour_xy: the bytes handed to _write_gatt. An XY
\* argument x is given as int(x * 0xFFFF).
Payload(c, a) ==
    IF c = "light_name" THEN a
    ELSE IF c = "power" THEN <<IF a THEN 1 ELSE 0>>
    ELSE IF c = "brightness" THEN <<Clamp(a, 1, 254)>>
    ELSE IF c = "colour_temp"
         THEN <<Clamp(a, 153, 500) % 256, Clamp(a, 153, 500) \div 256>>
    ELSE <<a[1] % 256, a[1] \div 256, a[2] % 256, a[2] \div 256>>

PollState(p) ==
    /\ proc[p].pc = "idle"
    /\ \E notify \in BOOLEAN, fr \in Raisers(state_changed_callbacks) :
          Take(PollCall(St, p, notify, fr))

AcquireStateLock(p) ==
    /\ proc[p].pc = "p_wait"
    /\ state_update_lock = None
    /\ \E fr \in Raisers(state_changed_callbacks) : Take(PollEnter(St, p, fr))

PollTimeout(p) ==
    /\ io[p].poll
    /\ Take(PollTimeoutResult(St, p))

AttemptTimeout(p) ==
    /\ io[p].gop # "none"
    /\ Take(AttemptTimeoutResult(St, p))

IoDone(p) ==
    /\ proc[p].pc = "g_io"
    /\ \E out \in {"ok"} \cup RawErrors, raw \in RawValues(io[p].char),
          fr \in Raisers(state_changed_callbacks) :
          /\ out = "ok" => /\ sess[proc[p].tgt].st = "connected"
                           /\ io[p].char \in deviceServices
          /\ Take(IoResult(St, p, out, raw, fr))

\* Setters that refuse a feature whose capability flag is absent.
SetValueChecked(p) ==
    /\ proc[p].pc = "idle"
    /\ \E c \in WriteChars : \E a \in SetArgs(c) :
          IF PollSupported(mirror, c)
          THEN Take(GattStart(St, p, "write", c, Payload(c, a)))
          ELSE Take([St EXCEPT !.ev = IoEvent("gatt_fail", "SupportsError",
                                              "none", c, "none", 0, NoIo,
                                              Payload(c, a), "not_run")])

SetValue(p) ==
    /\ proc[p].pc = "idle"
    /\ \E c \in WriteChars : \E a \in SetArgs(c) :
          Take(GattStart(St, p, "write", c, Payload(c, a)))

\* The device pushes a value on a subscription of session s.
Push(s) ==
    /\ sess[s].st = "connected"
    /\ \E c \in sess[s].subs : \E raw \in RawValues(c),
          fr \in Raisers(state_changed_callbacks) :
          Set(Report(St, c, raw, fr))

\* The device is the same in every session: establish_connection finds the
\* service table the device has.
OpenDoneSame(p) ==
    /\ proc[p].pc = "c_open"
    /\ \E out \in {"ok", "dead"} \cup RawErrors, view \in PairViews,
          dOk \in BOOLEAN, rc \in RunCallbackArgs(St, p) :
          /\ out \in {"ok", "dead"} => nsess < MaxSessions
          /\ Take(Resume(St, OpenResult(St, p, out, deviceServices, view,
                                        dOk, rc), p))

\* Service tables of the devices that are polled.
TempTable == {"power", "colour_temp"}
PollTables == {BasicTable, TempTable}

InitPoll ==
    /\ proc = [p \in Procs |-> IdleProc]
    /\ connection_lock = None
    /\ client = None
    /\ sess = [s \in Sessions |-> NewSess]
    /\ nsess = 0
    /\ deviceServices \in PollTables
    /\ mirror = [manufacturer |-> NoneS, model |-> NoneS, fw |-> NoneS,
                 zigbee_address |-> NoneS, light_name |-> NoneS,
                 power_on |-> "False", brightness |-> NoneI,
                 colour_temp |-> NoneI, colour_xy |-> NoneXY]
    /\ expect_disconnect = TRUE
    /\ connection_attempts = 0
    /\ state_changed_callbacks = <<>>
    /\ ev = Event("init", "none", "none", "none", "none", 0, 0)
    /\ state_update_lock = None
    /\ io = [p \in Procs |-> NoIo]

\* Concurrent polls of one device over a link that stays up: the pollers,
\* the connection sequences their reads start, and the device's pushes.
NextPollers ==
    \/ \E p \in Pollers : PollState(p)
    \/ \E p \in Pollers : AcquireStateLock(p)
    \/ \E p \in Pollers : PollTimeout(p)
    \/ \E p \in Pollers : AttemptTimeout(p)
    \/ \E p \in Pollers : IoDone(p)
    \/ \E p \in Pollers : OpenDoneSame(p)
    \/ \E p \in Pollers : PairDone(p)
    \/ \E p \in Pollers : PairDelayDone(p)
    \/ \E p \in Pollers : SubscribeDone(p)
    \/ \E s \in Sessions : Push(s)
    \/ AddCallback
    \/ RemoveCallback

SpecPoll == InitPoll /\ [][NextPollers]_vars

\* Writes of one application task over a link that can be lost: the setters,
\* the connection sequences their attempts start, and the reconnect tasks
\* that compete with them for the connection lock.
NextWrite ==
    \/ \E p \in Users : SetValue(p)
    \/ \E p \in Users : AttemptTimeout(p)
    \/ \E p \in Users : IoDone(p)
    \/ \E p \in Procs : AcquireLock(p)
    \/ \E p \in Procs : OpenDoneSame(p)
    \/ \E p \in Procs : PairDone(p)
    \/ \E p \in Procs : PairDelayDone(p)
    \/ \E p \in Procs : SubscribeDone(p)
    \/ \E s \in Sessions : LinkDrop(s)
    \/ \E s \in Sessions : DisconnectNotification(s)
    \/ \E p \in Tasks : ReconnectTaskStart(p)
    \/ \E p \in Tasks : DisconnectDone(p)
    \/ \E p \in Tasks : ReconnectWake(p)
    \/ AddCallback
    \/ RemoveCallback

SpecWrite == Init /\ [][NextWrite]_vars

\* ------------------------------------------- an accepting transport
\* The environment of the automatic recovery: the application connects,
\* disconnects and registers callbacks, none of which raises, but invokes
\* nothing while a recovery is under way; the transport accepts every call
\* of a connection sequence; the link is lost only while the manager is
\* Connected and no operation is in flight.
NoRaise(rc) == rc.fr = 0

\* No lost link is waiting for its notification and no reconnect task runs.
NoRecovery ==
    /\ \A s \in Sessions : ~sess[s].notify
    /\ \A q \in Tasks : proc[q].pc = "idle"

CallerConnect(p) ==
    /\ NoRecovery
    /\ Connect(p)

CallerDisconnect(p) ==
    /\ NoRecovery
    /\ Disconnect(p)

OpenAccepted(p) ==
    /\ proc[p].pc = "c_open"
    /\ nsess < MaxSessions
    /\ \E tbl \in ServiceTables, view \in PairViews,
          rc \in {a \in RunCallbackArgs(St, p) : NoRaise(a)} :
          Set(OpenResult(St, p, "ok", tbl, view, TRUE, rc))

PairAccepted(p) ==
    /\ proc[p].pc = "c_pair"
    /\ sess[proc[p].tgt].st = "connected"
    /\ Set(PairResult(St, p, "ok"))

PairDelayAccepted(p) ==
    /\ proc[p].pc = "c_pair_delay"
    /\ \E view \in {v \in PairViews : v.auth # "False"},
          rc \in {a \in RunCallbackArgs(St, p) : NoRaise(a)} :
          Set(PairDelayResult(St, p, view, TRUE, rc))

SubscribeAccepted(p) ==
    /\ proc[p].pc = "c_sub"
    /\ sess[proc[p].tgt].st = "connected"
    /\ \E rc \in {a \in RunCallbackArgs(St, p) : NoRaise(a)} :
          Set(SubscribeResult(St, p, "ok", rc))

DisconnectCaughtDone(p) ==
    /\ proc[p].pc \in {"d_await", "d_closed"}
    /\ \E out \in {"ok", "TimeoutError", "BleakError"} :
          /\ out # "ok" => proc[p].pc = "d_await"
          /\ out = "ok" => sess[proc[p].tgt].st # "connected"
          /\ Set(DisconnectResult(St, p, out))

UnexpectedLinkDrop(s) ==
    /\ client = s
    /\ ~expect_disconnect
    /\ \A p \in Procs : proc[p].pc = "idle"
    /\ nsess < MaxSessions
    /\ LinkDrop(s)

QuietNotification(s) ==
    /\ sess[s].notify
    /\ Set(DisconnectCallback(St, s, 0))

\* The steps the event loop and the transport take on their own.
RecoverStep ==
    \/ \E p \in Procs : OpenAccepted(p)
    \/ \E p \in Procs : PairAccepted(p)
    \/ \E p \in Procs : PairDelayAccepted(p)
    \/ \E p \in Procs : SubscribeAccepted(p)
    \/ \E p \in Procs : TransportClose(p)
    \/ \E p \in Procs : DisconnectCaughtDone(p)
    \/ \E p \in Tasks : ReconnectTaskStart(p)
    \/ \E p \in Tasks : ReconnectWake(p)
    \/ \E s \in Sessions : QuietNotification(s)

NextRecover ==
    \/ \E p \in Users : CallerConnect(p)
    \/ \E p \in Users : CallerDisconnect(p)
    \/ \E s \in Sessions : UnexpectedLinkDrop(s)
    \/ AddCallback
    \/ RemoveCallback
    \/ RecoverStep

\* The event loop runs every task that can run and delivers every pending
\* notification; the accepting transport completes every call.
SpecRecover == Init /\ [][NextRecover]_vars /\ WF_vars(RecoverStep)

\* ----------------------------------------------------------------- claims
\* The tasks inside the connection sequence of connect().
InSequence == {p \in Procs : proc[p].pc \in SeqPcs}

\* What _subscribe_to_light subscribes to, given the capability flags.
Subscribable == {SubOrder[i] : i \in {j \in 1..4 : Supports(mirror, SubOrder[j])}}

\* The session the manager holds has been paired, discovered and subscribed.
SessionReady ==
    /\ client # None
    /\ sess[client].paired
    /\ sess[client].disc
    /\ sess[client].subs = Subscribable

\* C1: for any interleaving of connect callers (direct or through the
\* reconnect task), at most one task is inside the connection sequence
\* (transport open, pair, discover, subscribe), and it is the task that
\* holds the connection lock: nobody else starts a transport open before the
\* holder has left the sequence.
C1_OneTaskInSequence ==
    /\ Cardinality(InSequence) <= 1
    /\ \A p \in InSequence : connection_lock = p

\* C1 witness: a task is inside the sequence while another waits for the lock.
C1_Witness ==
    \E p, q \in Procs : proc[p].pc \in SeqPcs /\ proc[q].pc = "c_wait"

\* C2: whenever a connect call returns normally, the session the manager
\* holds has completed pairing, capability discovery and every subscription,
\* and no other task is still inside the connection sequence.
C2_ConnectReturnsReady ==
    (ev.kind = "connect_ret" /\ ev.res = "ok") =>
        (SessionReady /\ InSequence = {})

\* C3: at every moment the only transport session in the connected state is
\* the one the manager references (so there is at most one).
C3_OnlyHeldSessionConnected ==
    \A s \in Sessions : sess[s].st = "connected" => client = s

\* C4: a connect call made while the manager is Connected opens no session,
\* does not pair, rediscover or resubscribe, leaves the capability flags, the
\* Mirror, the attempt counter, the expected flag, the lock and the session
\* reference unchanged, runs no callback and returns normally.
C4_ConnectWhenConnectedIsNoOp ==
    [][\A p \in Procs :
          ((Connect(p) \/ ReconnectWake(p)) /\ connected(St)) =>
              /\ UNCHANGED <<connection_lock, client, sess, nsess, deviceServices,
                             mirror, expect_disconnect, connection_attempts,
                             state_changed_callbacks>>
              /\ proc' = [proc EXCEPT ![p] = IdleProc]
              /\ ev'.kind = "connect_ret"
              /\ ev'.res = "ok"
              /\ ev'.ran = 0]_vars

\* C4 witness: a connect call has just returned as already connected, after
\* a completed sequence.
C4_Witness ==
    ev.kind = "connect_ret" /\ ev.cause = "already" /\ connected(St)
    /\ SessionReady

\* The steps of connect() that come after the transport session was opened.
AfterOpenSteps == {"pair", "discover", "subscribe", "sequence_timeout"}

\* C5: when a connect call fails after the transport session was opened
\* (pairing, discovery, subscription, per-attempt timeout), the manager is
\* Disconnected when the call returns: it holds no session that reports
\* connected.
C5_FailedConnectLeavesDisconnected ==
    (ev.kind = "connect_fail" /\ ev.step \in AfterOpenSteps) => ~connected(St)

\* C6 (as claimed): when connect fails, the error the caller receives is of
\* the kind of the step that failed: initial-connection for the transport
\* open, pairing for the pairing, services for discovery and subscription.
C6_ErrorKindOfFailedStep ==
    ev.kind = "connect_fail" =>
        /\ ev.step = "open" => ev.res = "InitialConnectionError"
        /\ ev.step = "pair" => ev.res = "PairingError"
        /\ ev.step \in {"discover", "subscribe"} => ev.res = "ServicesError"

\* C6 (amended): when connect fails, the error the caller receives is raised
\* from (has as its cause) an error of the kind of the step that failed:
\* InitialConnectionError when the transport open failed, PairingError when
\* the pair request timed out or raised a BleakError, ServicesError when
\* discovery or subscription failed.
C6_CauseKindOfFailedStep ==
    ev.kind = "connect_fail" =>
        /\ ev.step = "open" => ev.cause = "InitialConnectionError"
        /\ (ev.step = "pair" /\ ev.raw \in {"TimeoutError", "BleakError"})
               => ev.cause = "PairingError"
        /\ ev.step \in {"discover", "subscribe"} => ev.cause = "ServicesError"

\* C6 witness: a connect call has failed in the pair request.
C6_Witness ==
    ev.kind = "connect_fail" /\ ev.step = "pair" /\ ev.raw = "BleakError"
    /\ ev.cause = "PairingError"

\* C7: every failure to establish the connection inside connect (lock-wait
\* timeout, transport open, pairing, discovery, subscription, per-attempt
\* timeout) reaches the caller as a ConnectionError.
C7_FailureIsConnectionError ==
    ev.kind = "connect_fail" => ev.res = "ConnectionError"

\* C7 witness: a connect call has failed in a subscription, the last step.
C7_Witness ==
    ev.kind = "connect_fail" /\ ev.step = "subscribe" /\ ev.raw = "OtherError"

\* C8: for every outcome of the transport's disconnect call, disconnect()
\* returns normally, the session reference is discarded and the next
\* disconnect is marked expected.
C8_DisconnectAlwaysReturns ==
    ev.kind \in {"disconnect_ret", "disconnect_fail"} =>
        /\ ev.kind = "disconnect_ret"
        /\ client = None
        /\ expect_disconnect

\* C9: in every interleaving, the disconnect notification of a link that an
\* explicit disconnect() call of the application closed runs no state-changed
\* callback and schedules no reconnect.
C9_ExplicitDisconnectIsQuiet ==
    (ev.kind = "notify" /\ ev.step = "disconnect") =>
        (ev.ran = 0 /\ ev.spawn = 0)

\* C10: each disconnect notification from the current session while
\* disconnects are marked unexpected (the attempt ceiling, -1, is never
\* reached) runs every registered callback and schedules exactly one
\* reconnect task, whatever the callbacks do.
C10_UnexpectedDisconnectReconnects ==
    [][\A s \in Sessions :
          (sess[s].notify /\ ~sess'[s].notify /\ client = s
           /\ ~expect_disconnect) =>
              /\ ev'.ran = Len(state_changed_callbacks)
              /\ ev'.spawn = 1
              /\ proc'[TaskOf(s)].pc = "r_start"]_vars

\* C11: a disconnect notification whose session is not the one the manager
\* references (superseded by a new connect, or after disconnect() discarded
\* the reference) changes nothing of the manager's state, runs no callback
\* and schedules no reconnect: only the notification itself is consumed.
C11_StaleNotificationIgnored ==
    [][\A s \in Sessions :
          (sess[s].notify /\ ~sess'[s].notify /\ client # s) =>
              /\ UNCHANGED <<proc, connection_lock, client, nsess, deviceServices,
                             mirror, expect_disconnect, connection_attempts,
                             state_changed_callbacks>>
              /\ sess' = [sess EXCEPT ![s].notify = FALSE, ![s].why = "none"]
              /\ ev'.ran = 0
              /\ ev'.spawn = 0]_vars

\* C11 witness: the notification of an old session has been ignored while
\* the manager holds a newer session and treats disconnects as unexpected.
C11_Witness ==
    /\ ev.kind = "notify"
    /\ ev.res = "stale"
    /\ client # None
    /\ ~expect_disconnect

\* The link of the session the manager holds was lost (it was not closed by
\* a disconnect() call) while disconnects are marked unexpected, and the
\* notification is on its way.
UnexpectedDisconnectPending ==
    /\ client # None
    /\ sess[client].st = "closed"
    /\ sess[client].why = "drop"
    /\ sess[client].notify
    /\ ~expect_disconnect

\* C12: after an unexpected disconnect of the current session, if the
\* transport accepts every later connection attempt and no callback raises,
\* the manager eventually is Connected again with disconnects marked
\* unexpected, without any caller invoking an operation.
C12_RecoversFromUnexpectedDisconnect ==
    UnexpectedDisconnectPending ~> (connected(St) /\ ~expect_disconnect)

\* C12 witness: the reconnect task has finished its connection sequence on a
\* second session.
C12_Witness ==
    /\ ev.kind = "connect_ret"
    /\ ev.cause = "sequence"
    /\ nsess = 2
    /\ connected(St)
    /\ ~expect_disconnect

\* A poll_state call that is past the state-update lock and not yet out of it.
InReads(p) == io[p].poll /\ proc[p].pc # "p_wait"

\* ------------------------------------------------- the setters' payloads
\* The integers the application may pass to set_brightness and to
\* set_colour_temp.
IntArgs == (0 - 3)..MaxArg

\* set_brightness / set_colour_temp up to the call of _write_gatt: the
\* payload is made of argument a; the event keeps it with what poll_X would
\* decode from it.
MakePayload(S, c, a) ==
    [S EXCEPT !.ev = [Event("payload", "ok", "none", c, "none", 0, 0) EXCEPT
                         !.arg = a,
                         !.val = Payload(c, a),
                         !.seen = Decode(c, Payload(c, a))]]

SetBrightness ==
    /\ proc[1].pc = "idle"
    /\ \E a \in IntArgs : Set(MakePayload(St, "brightness", a))

SetColourTemp ==
    /\ proc[1].pc = "idle"
    /\ \E a \in IntArgs : Set(MakePayload(St, "colour_temp", a))

NextCodec ==
    \/ SetBrightness
    \/ SetColourTemp

SpecCodec == Init /\ [][NextCodec]_vars

\* ------------------------------------------- the triggers of callbacks
\* The application registers up to one function more than MaxCallbacks, of
\* one function more than CallbackIds, so that a different callback can
\* follow one that raises.
AddCallbackAgain ==
    /\ Len(state_changed_callbacks) < MaxCallbacks + 1
    /\ \E k \in 1..(MaxCallbacks + 1) :
          Set([St EXCEPT !.callbacks = Append(@, k), !.ev = Quiet])

\* The transport accepts every call, as above, but the callbacks may raise
\* wherever they are run.
OpenAnswered(p) ==
    /\ proc[p].pc = "c_open"
    /\ nsess < MaxSessions
    /\ \E view \in PairViews, rc \in RunCallbackArgs(St, p) :
          Take(Resume(St, OpenResult(St, p, "ok", deviceServices, view, TRUE,
                                     rc), p))

PairAnswered(p) ==
    /\ proc[p].pc = "c_pair"
    /\ sess[proc[p].tgt].st = "connected"
    /\ Take(Resume(St, PairResult(St, p, "ok"), p))

PairDelayAnswered(p) ==
    /\ proc[p].pc = "c_pair_delay"
    /\ \E view \in {v \in PairViews : v.auth # "False"},
          rc \in RunCallbackArgs(St, p) :
          Take(Resume(St, PairDelayResult(St, p, view, TRUE, rc), p))

SubscribeAnswered(p) ==
    /\ proc[p].pc = "c_sub"
    /\ sess[proc[p].tgt].st = "connected"
    /\ \E rc \in RunCallbackArgs(St, p) :
          Take(Resume(St, SubscribeResult(St, p, "ok", rc), p))

ReadAnswered(p) ==
    /\ proc[p].pc = "g_io"
    /\ sess[proc[p].tgt].st = "connected"
    /\ io[p].char \in deviceServices
    /\ \E raw \in RawValues(io[p].char),
          fr \in Raisers(state_changed_callbacks) :
          Take(IoResult(St, p, "ok", raw, fr))

\* The link is lost while no operation is in flight.
IdleLinkDrop(s) ==
    /\ client = s
    /\ \A p \in Procs : proc[p].pc = "idle"
    /\ LinkDrop(s)

\* One application task that connects and one that polls a device whose
\* link can be lost: the four triggers of the callbacks.
NextNotify ==
    \/ \E p \in Users : CallerConnect(p)
    \/ PollState(Poller)
    \/ ReadAnswered(Poller)
    \/ \E p \in Procs : AcquireLock(p)
    \/ \E p \in Procs : OpenAnswered(p)
    \/ \E p \in Procs : PairAnswered(p)
    \/ \E p \in Procs : PairDelayAnswered(p)
    \/ \E p \in Procs : SubscribeAnswered(p)
    \/ \E s \in Sessions : Push(s)
    \/ \E s \in Sessions : IdleLinkDrop(s)
    \/ \E s \in Sessions : DisconnectNotification(s)
    \/ \E p \in Tasks : ReconnectTaskStart(p)
    \/ \E p \in Tasks : DisconnectDone(p)
    \/ \E p \in Tasks : ReconnectWake(p)
    \/ AddCallbackAgain
    \/ RemoveCallback

SpecNotify == Init /\ [][NextNotify]_vars

\* ------------------------------------------- what one poll has read
\* The history of the poll of task Poller is carried from event to event:
\* got, the value read per characteristic; over, the characteristics read
\* whose field somebody else has stored to since; prev, the field of the characteristic being read as it was when
\* its read was started; diff, whether a value read so far differed from
\* that; fresh, whether the poll was called on a light on which
\* _determine_services had never run.
\* No connection sequence has reached _determine_services so far (on a
\* session whose link has not closed since: a closed link loses the mark).
NeverDiscovered(S) == \A s \in Sessions : ~S.sess[s].disc

\* A capability discovery has run between S0 and S1.
Discovered(S0, S1) ==
    \E s \in Sessions : S1.sess[s].disc /\ ~S0.sess[s].disc

\* The step from St to S1 belongs to the history: add is what the poll read
\* in it, drop the characteristics whose field a push stored to; a discovery
\* stores to every field. A read that starts in the step fixes prev.
Synced(S1, add, drop) ==
    LET stored == IF Discovered(St, S1) THEN Chars ELSE drop
        i == S1.io[Poller]
        starts == i.gop = "read" /\ (~io[Poller].poll \/ i.ci # io[Poller].ci)
    IN [S1 EXCEPT !.ev.got = add @@ ev.got,
                  !.ev.over = ((ev.over \cup stored) \cap DOMAIN ev.got)
                                  \ DOMAIN add,
                  !.ev.prev = IF starts THEN S1.mirror[Field(i.char)]
                              ELSE ev.prev,
                  !.ev.diff = ev.diff,
                  !.ev.fresh = ev.fresh]

PollSynced ==
    /\ proc[Poller].pc = "idle"
    /\ \E notify \in BOOLEAN :
          Take([Synced(PollCall(St, Poller, notify, 0), <<>>, {})
                   EXCEPT !.ev.diff = FALSE, !.ev.got = <<>>,
                          !.ev.over = {},
                          !.ev.fresh = NeverDiscovered(St)])

ReadSynced ==
    /\ proc[Poller].pc = "g_io"
    /\ \E out \in {"ok"} \cup RawErrors, raw \in RawValues(io[Poller].char) :
          /\ out = "ok" => /\ sess[proc[Poller].tgt].st = "connected"
                           /\ io[Poller].char \in deviceServices
          /\ LET c == io[Poller].char
                 d == Decode(c, raw)
                 S1 == IoResult(St, Poller, out, raw, 0)
             IN IF out = "ok"
                THEN Take([Synced(S1, c :> d, {c})
                              EXCEPT !.ev.diff = ev.diff \/ ev.prev # d])
                ELSE Take(Synced(S1, <<>>, {}))

OpenSynced ==
    /\ proc[Poller].pc = "c_open"
    /\ \E out \in {"ok", "dead"} \cup RawErrors, view \in PairViews,
          dOk \in BOOLEAN :
          /\ out \in {"ok", "dead"} => nsess < MaxSessions
          /\ Take(Synced(Resume(St, OpenResult(St, Poller, out, deviceServices,
                                              view, dOk,
                                              [run |-> TRUE, fr |-> 0]),
                                Poller), <<>>, {}))

PairSynced ==
    /\ proc[Poller].pc = "c_pair"
    /\ \E out \in {"ok"} \cup RawErrors :
          /\ out = "ok" => sess[proc[Poller].tgt].st = "connected"
          /\ Take(Synced(Resume(St, PairResult(St, Poller, out), Poller),
                         <<>>, {}))

PairDelaySynced ==
    /\ proc[Poller].pc = "c_pair_delay"
    /\ \E view \in PairViews, dOk \in BOOLEAN :
          Take(Synced(Resume(St, PairDelayResult(St, Poller, view, dOk,
                                                 [run |-> TRUE, fr |-> 0]),
                             Poller), <<>>, {}))

SubscribeSynced ==
    /\ proc[Poller].pc = "c_sub"
    /\ \E out \in {"ok"} \cup RawErrors :
          /\ out = "ok" => sess[proc[Poller].tgt].st = "connected"
          /\ Take(Synced(Resume(St, SubscribeResult(St, Poller, out,
                                                    [run |-> TRUE, fr |-> 0]),
                                Poller), <<>>, {}))

PushSynced ==
    \E s \in Sessions :
       /\ sess[s].st = "connected"
       /\ \E c \in sess[s].subs : \E raw \in RawValues(c) :
             Set(Synced(Report(St, c, raw, 0), <<>>, {c}))

LinkDropSynced ==
    \E s \in Sessions :
       /\ sess[s].st = "connected"
       /\ Set(Synced(CloseLink(St, s, "drop"), <<>>, {}))

\* One task polls a device that pushes values and whose link can be lost;
\* no callback is registered and the disconnect notification is still to
\* be delivered.
NextSync ==
    \/ PollSynced
    \/ ReadSynced
    \/ OpenSynced
    \/ PairSynced
    \/ PairDelaySynced
    \/ SubscribeSynced
    \/ PushSynced
    \/ LinkDropSynced

SpecSync == InitPoll /\ [][NextSync]_vars

\* Service tables of the devices that are polled for the first time.
FirstTables == {BasicTable, TempTable, FullTable}

\* A light as __init__ leaves it, of one of the devices of FirstTables.
InitFirst ==
    /\ proc = [p \in Procs |-> IdleProc]
    /\ connection_lock = None
    /\ client = None
    /\ sess = [s \in Sessions |-> NewSess]
    /\ nsess = 0
    /\ deviceServices \in FirstTables
    /\ mirror = [manufacturer |-> NoneS, model |-> NoneS, fw |-> NoneS,
                 zigbee_address |-> NoneS, light_name |-> NoneS,
                 power_on |-> "False", brightness |-> NoneI,
                 colour_temp |-> NoneI, colour_xy |-> NoneXY]
    /\ expect_disconnect = TRUE
    /\ connection_attempts = 0
    /\ state_changed_callbacks = <<>>
    /\ ev = Event("init", "none", "none", "none", "none", 0, 0)
    /\ state_update_lock = None
    /\ io = [p \in Procs |-> NoIo]

\* poll_state called on a light on which no discovery has run.
FirstPoll ==
    /\ NeverDiscovered(St)
    /\ PollSynced

\* One task polls a light until it has been discovered, and ends the poll
\* that discovered it; the link stays up and the device pushes nothing.
NextFirst ==
    \/ FirstPoll
    \/ ReadSynced
    \/ OpenSynced
    \/ PairSynced
    \/ PairDelaySynced
    \/ SubscribeSynced

SpecFirst == InitFirst /\ [][NextFirst]_vars

\* ------------------------------------ a read reply and a notification
\* `await self._client.read_gatt_char(..)` ends in two steps: the reply of
\* the device arrives and resolves the future of the call, and the event
\* loop resumes the task later; a notification that arrives in between runs
\* its report handler at once. The events carry the reply that has arrived
\* (answered, reply) and, per characteristic, the value the device reported
\* last (last).
Raced(S1, answered, reply, last) ==
    [S1 EXCEPT !.ev.answered = answered, !.ev.reply = reply, !.ev.last = last]

\* connect() called on a light that is not connected.
FirstConnect(p) ==
    /\ ~connected(St)
    /\ Connect(p)

PollRaced ==
    /\ connected(St)
    /\ \A p \in Procs : proc[p].pc = "idle"
    /\ Take(Raced(PollCall(St, Poller, FALSE, 0), FALSE, 0, ev.last))

ReplyArrives ==
    /\ proc[Poller].pc = "g_io"
    /\ ~ev.answered
    /\ sess[proc[Poller].tgt].st = "connected"
    /\ io[Poller].char \in deviceServices
    /\ \E raw \in RawValues(io[Poller].char) :
          Set(Raced([St EXCEPT !.ev = Quiet], TRUE, raw,
                    (io[Poller].char :> Decode(io[Poller].char, raw))
                        @@ ev.last))

ReadResumes ==
    /\ proc[Poller].pc = "g_io"
    /\ ev.answered
    /\ Take(Raced(IoResult(St, Poller, "ok", ev.reply, 0), FALSE, 0, ev.last))

\* A notification of the characteristic that a poll in progress is reading.
PushRaced ==
    \E s \in Sessions :
       /\ sess[s].st = "connected"
       /\ proc[Poller].pc = "g_io"
       /\ \E c \in sess[s].subs \cap {io[Poller].char} :
          \E raw \in RawValues(c) :
             Set(Raced(Report(St, c, raw, 0), ev.answered, ev.reply,
                       (c :> Decode(c, raw)) @@ ev.last))

\* The application connects and then polls a light that pushes values; the
\* transport accepts every call and the link stays up.
NextRace ==
    \/ \E p \in Users : FirstConnect(p)
    \/ \E p \in Procs : OpenAccepted(p)
    \/ \E p \in Procs : PairAccepted(p)
    \/ \E p \in Procs : PairDelayAccepted(p)
    \/ \E p \in Procs : SubscribeAccepted(p)
    \/ PollRaced
    \/ ReplyArrives
    \/ ReadResumes
    \/ PushRaced

SpecRace == Init /\ [][NextRace]_vars

\* ------------------------------------- disconnect() during a recovery
\* The disconnect() calls of the application are remembered: when one has
\* returned in S, the session whose loss started a reconnect task that is
\* still under way is marked (cut).
Marked(S) ==
    IF S.ev.kind = "disconnect_ret" /\ S.ev.step = "disconnect"
    THEN [S EXCEPT !.sess = [s \in Sessions |->
                                IF S.proc[TaskOf(s)].pc # "idle"
                                THEN [S.sess[s] EXCEPT !.cut = TRUE]
                                ELSE S.sess[s]]]
    ELSE S

\* disconnect() called by the application while a recovery is under way.
DisconnectInRecovery(p) ==
    /\ proc[p].pc = "idle"
    /\ ~NoRecovery
    /\ Set(Marked(DisconnectCall(St, p, "disconnect")))

DisconnectDoneMarked(p) ==
    /\ proc[p].pc \in {"d_await", "d_closed"}
    /\ \E out \in {"ok", "TimeoutError", "BleakError"} :
          /\ out # "ok" => proc[p].pc = "d_await"
          /\ out = "ok" => sess[proc[p].tgt].st # "connected"
          /\ Set(Marked(DisconnectResult(St, p, out)))

\* The application connects, the link is lost, and the application calls
\* disconnect() during the recovery and nothing afterwards until the
\* recovery is over; the transport accepts every call.
NextCancel ==
    \/ \E p \in Users : CallerConnect(p)
    \/ \E p \in Users : DisconnectInRecovery(p)
    \/ \E s \in Sessions : UnexpectedLinkDrop(s)
    \/ \E p \in Procs : OpenAccepted(p)
    \/ \E p \in Procs : PairAccepted(p)
    \/ \E p \in Procs : PairDelayAccepted(p)
    \/ \E p \in Procs : SubscribeAccepted(p)
    \/ \E p \in Procs : TransportClose(p)
    \/ \E p \in Procs : DisconnectDoneMarked(p)
    \/ \E p \in Tasks : ReconnectTaskStart(p)
    \/ \E p \in Tasks : ReconnectWake(p)
    \/ \E s \in Sessions : QuietNotification(s)

SpecCancel == Init /\ [][NextCancel]_vars

\* ------------------------------------------------- the pairing step seen
\* What pair() saw: the event of a step in which pair() tested
\* self.authenticated keeps which test it was (chk: "entry", or "after" the
\* pair request and the delay) and what it saw.
Seen(S, chk, view) ==
    [S EXCEPT !.ev.chk = chk, !.ev.auth = view.auth, !.ev.darwin = view.darwin]

OpenSeen(p) ==
    /\ proc[p].pc = "c_open"
    /\ nsess < MaxSessions
    /\ \E view \in PairViews, dOk \in BOOLEAN, rc \in RunCallbackArgs(St, p) :
          Take(Seen(OpenResult(St, p, "ok", deviceServices, view, dOk, rc),
                    "entry", view))

PairDelaySeen(p) ==
    /\ proc[p].pc = "c_pair_delay"
    /\ \E view \in PairViews, dOk \in BOOLEAN, rc \in RunCallbackArgs(St, p) :
          Take(Seen(PairDelayResult(St, p, view, dOk, rc), "after", view))

\* connect() and disconnect() of the application over a transport whose
\* answers to the pair request and to the subscriptions are free.
NextPair ==
    \/ \E p \in Users : Connect(p)
    \/ \E p \in Users : Disconnect(p)
    \/ \E p \in Procs : OpenSeen(p)
    \/ \E p \in Procs : PairDone(p)
    \/ \E p \in Procs : PairDelaySeen(p)
    \/ \E p \in Procs : SubscribeDone(p)
    \/ \E p \in Procs : TransportClose(p)
    \/ \E p \in Procs : DisconnectDone(p)
    \/ AddCallback
    \/ RemoveCallback

SpecPair == Init /\ [][NextPair]_vars

\* C13: of the concurrent poll_state calls at most one is inside the read
\* sequence, and it holds the state-update lock; a call that waits for the
\* lock has made no attempt to read, and leaves the wait either when the lock
\* is free, or with TimeoutError without having issued any read and without
\* having touched the Mirror or the lock.
C13_OnePollInReadSequence ==
    /\ [](\A p \in Pollers :
            /\ InReads(p) => state_update_lock = p
            /\ proc[p].pc = "p_wait" => (io[p].att = 0 /\ io[p].ios = 0))
    /\ [][\A p \in Pollers :
            (proc[p].pc = "p_wait" /\ proc'[p].pc # "p_wait") =>
               \/ /\ state_update_lock = None
                  /\ ev'.kind \in {"step", "poll_ret"}
               \/ /\ ev'.kind = "poll_fail"
                  /\ ev'.res = "TimeoutError"
                  /\ ev'.att = 0
                  /\ ev'.ios = 0
                  /\ mirror' = mirror
                  /\ state_update_lock' = state_update_lock]_vars

\* One poll is reading a characteristic while another waits for the lock.
C13_Witness ==
    \E p, q \in Pollers :
       /\ proc[p].pc = "g_io"
       /\ io[p].poll
       /\ state_update_lock = p
       /\ proc[q].pc = "p_wait"

\* C14 as stated: a read whose retries are exhausted does not make poll_state
\* fail as a whole, the poll goes on to the remaining characteristics and
\* returns.
C14_PollSurvivesFailedRead ==
    ev.kind = "poll_fail" => ev.res # "ReadWriteError"

\* C14, amended: when the read of a characteristic fails with its retries
\* exhausted, poll_state fails as a whole with that ReadWriteError at that
\* characteristic: it reads no remaining characteristic, leaves the
\* state-update lock, runs no state-changed callback and returns no value.
C14_PollFailsAtFirstFailedRead ==
    [][\A p \in Pollers :
          (InReads(p) /\ io[p].gop = "read") =>
             /\ (io'[p].poll /\ io'[p].ci # io[p].ci) =>
                   (ev'.kind = "read_ret" /\ ev'.step = io[p].char)
             /\ (~io'[p].poll /\ ev'.kind = "poll_ret") =>
                   ev'.fails < MaxAttempts("read")
             /\ (~io'[p].poll /\ ev'.kind = "poll_fail"
                   /\ ev'.res = "ReadWriteError") =>
                   /\ ev'.step = io[p].char
                   /\ ev'.att = MaxAttempts("read")
                   /\ ev'.fails = MaxAttempts("read")
                   /\ ev'.cb = "not_run"
                   /\ ev'.ran = 0
                   /\ state_update_lock = p
                   /\ state_update_lock' = None
                   /\ proc'[p].pc = "idle"
                   /\ io'[p] = NoIo
             /\ io'[p].poll => io'[p].fails < MaxAttempts("read")]_vars

\* A poll has failed at the power read of a device whose colour temperature
\* it would have read next.
C14_Witness ==
    /\ ev.kind = "poll_fail"
    /\ ev.res = "ReadWriteError"
    /\ ev.step = "power"
    /\ ev.ios >= 1
    /\ supports_colour_temp(mirror)
    /\ state_update_lock = None

\* C15 as stated: whenever a poll_state call ends, by returning or by
\* raising, it has run the callbacks, after leaving the lock, iff it was
\* called with run_callbacks_if_changed and one of its reads changed a value.
C15_CallbacksIffChanged ==
    (ev.kind \in {"poll_ret", "poll_fail"} /\ state_changed_callbacks # <<>>) =>
       /\ ev.cb = "lock_released" <=> (ev.notify /\ ev.changed)
       /\ ev.ran >= 1 <=> (ev.notify /\ ev.changed)

\* C15, amended: a poll_state whose reads all succeed runs the callbacks
\* after it has left the state-update lock, and it runs them iff
\* run_callbacks_if_changed is true and a polled value changed; a poll_state
\* that fails in a read or by its timeout runs no callback, whatever had
\* changed; no poll invokes a callback while it holds the lock.
C15_CallbacksAfterRelease ==
    /\ ev.kind = "poll_ret" =>
          /\ ev.cb = "lock_released" <=> (ev.notify /\ ev.changed)
          /\ ev.cb # "lock_held"
          /\ ev.cb = "not_run" => (ev.ran = 0 /\ ev.res = "ok")
          /\ (ev.cb = "lock_released" /\ ev.res = "ok") =>
                ev.ran = Len(state_changed_callbacks)
    /\ ev.kind = "poll_fail" => (ev.cb = "not_run" /\ ev.ran = 0)

\* A poll that changed a value has returned and has run a callback with the
\* state-update lock free.
C15_Witness ==
    /\ ev.kind = "poll_ret"
    /\ ev.notify
    /\ ev.changed
    /\ ev.cb = "lock_released"
    /\ ev.ran >= 1
    /\ state_update_lock = None

\* The colour characteristics and what their getters return for None.
ColourChars == {"colour_temp", "colour_xy"}
NoValue(c) == IF c = "colour_xy" THEN NoneXY ELSE NoneI

\* C16: for a device whose service table lacks the colour temperature (or
\* the XY colour) characteristic, supports_colour_temp (supports_colour_xy)
\* is false and the getter returns None once the device is connected and
\* ever after, and no poll_state reads that characteristic: no poll is at
\* it, and no read or poll ends at it.
C16_AbsentColourNeverPolled ==
    \A c \in ColourChars \ deviceServices :
       /\ ~Supports(mirror, c)
       /\ Getter(mirror, c) = NoValue(c)
       /\ \A p \in Pollers : io[p].char # c
       /\ ev.kind \in {"read_ret", "poll_ret", "poll_fail", "push"} => ev.step # c

\* A device without the colour characteristics is connected and a poll that
\* read from it has returned.
C16_Witness ==
    /\ "colour_temp" \notin deviceServices
    /\ connected(St)
    /\ ev.kind = "poll_ret"
    /\ ev.step = "power"
    /\ ev.ios >= 1
    /\ ~supports_colour_temp(mirror)
    /\ Getter(mirror, "colour_temp") = NoneI

\* C17: when a transport read or write succeeds at attempt k after k - 1
\* failed attempts, 1 <= k <= max_attempts, the operation ends there: the
\* attempts made are those k, the caller gets the outcome of attempt k (a
\* read stores the payload decoded, a write returns) and no error, and the
\* loop does not go on with the same characteristic. An error of an attempt
\* reaches the caller only when all max_attempts attempts have failed.
C17_SuccessEndsRetries ==
    [][/\ \A p \in Procs :
            (proc[p].pc = "g_io" /\ io'[p] # io[p]
               /\ ev'.kind \in {"read_ret", "write_ret", "poll_ret"}) =>
                  /\ ev'.att = io[p].att
                  /\ ev'.fails = io[p].fails
                  /\ ev'.att = ev'.fails + 1
                  /\ ev'.att \in 1..MaxAttempts(io[p].gop)
                  /\ ev'.cause = "none"
                  /\ ev'.kind # "poll_ret" => ev'.res = "ok"
                  /\ io'[p].char # io[p].char
                  /\ io[p].gop = "write" =>
                        (ev'.val = io[p].val /\ proc'[p].pc = "idle")
                  /\ io[p].gop = "read" =>
                        \E raw \in RawValues(io[p].char) :
                           /\ ev'.kind = "read_ret" =>
                                 (ev'.raw = raw /\ ev'.val = Decode(io[p].char, raw))
                           /\ mirror'[Field(io[p].char)] = Decode(io[p].char, raw)
       /\ ev'.res = "ReadWriteError" =>
             \E op \in {"read", "write"} : ev'.fails = MaxAttempts(op)]_vars

\* A read has returned at its third attempt after two failed attempts.
C17_Witness ==
    /\ ev.kind = "read_ret"
    /\ ev.res = "ok"
    /\ ev.att = DEFAULT_READ_GATT_MAX_ATTEMPTS
    /\ ev.fails = DEFAULT_READ_GATT_MAX_ATTEMPTS - 1
    /\ mirror[Field(ev.step)] = ev.val

\* C18: every attempt of a read or a write calls connect() first, and goes
\* to the transport only when that connect() returned; when all attempts
\* have failed the call raises ReadWriteError after exactly max_attempts
\* attempts, and the error it is raised from is the error of the last
\* attempt.
C18_ExhaustedRetries ==
    /\ \A p \in Procs :
          io[p].gop # "none" =>
             /\ io[p].att \in 1..MaxAttempts(io[p].gop)
             /\ io[p].calls = io[p].att
             /\ io[p].cfails <= io[p].fails
             /\ io[p].fails < io[p].att
             /\ io[p].ios <= io[p].calls - io[p].cfails
             /\ proc[p].pc = "g_io" => io[p].ios >= 1
    /\ ev.res = "ReadWriteError" =>
          /\ ev.kind \in {"gatt_fail", "poll_fail"}
          /\ ev.att = MaxAttempts(IF ev.kind = "poll_fail" THEN "read" ELSE "write")
          /\ ev.calls = ev.att
          /\ ev.fails = ev.att
          /\ ev.ios <= ev.calls - ev.cfails
          /\ ev.cause # "none"
          /\ ev.cause = ev.raw

\* A write has failed after three attempts, of which one failed in connect()
\* and one in the transport.
C18_Witness ==
    /\ ev.kind = "gatt_fail"
    /\ ev.res = "ReadWriteError"
    /\ ev.att = DEFAULT_WRITE_GATT_MAX_ATTEMPTS
    /\ ev.cfails >= 1
    /\ ev.ios >= 1
    /\ ev.cause = "BleakError"

\* Task p takes the step and is in a setter before or after it.
WriteStep(p) ==
    /\ io[p].gop = "write" \/ io'[p].gop = "write"
    /\ proc'[p] # proc[p] \/ io'[p] # io[p]

\* C19 as stated: no step of a write, from its submission to its
\* acknowledgement or failure, changes the Mirror.
C19_WriteLeavesMirror ==
    [][\A p \in Users : WriteStep(p) => mirror' = mirror]_vars

\* C19, amended: a write never stores the value it writes, neither when it
\* is submitted nor when the transport acknowledges it or it fails; the only
\* change a write makes to the Mirror is that of the capability discovery
\* of a connection sequence which its connect() runs, which sets the fields
\* to the placeholders of the session's service table.
C19_WriteStoresNothing ==
    [][\A p \in Users :
          WriteStep(p) =>
             /\ (proc[p].pc \in {"idle", "g_io"}
                   \/ ev'.kind \in {"write_ret", "gatt_fail"}) => mirror' = mirror
             /\ mirror' # mirror =>
                   /\ proc[p].pc \in {"c_open", "c_pair", "c_pair_delay"}
                   /\ mirror' = Discover(mirror, deviceServices')]_vars

\* The transport has acknowledged set_power(True) and the Mirror still holds
\* the power state it held before.
C19_Witness ==
    /\ ev.kind = "write_ret"
    /\ ev.step = "power"
    /\ ev.val = <<1>>
    /\ mirror.power_on = "False"

\* C20: when a push notification has been delivered while a poll_state
\* holds the state-update lock, the handler has returned with the Mirror
\* field of the characteristic holding the pushed value decoded and with the
\* registered callbacks invoked in order (all of them unless one raised,
\* which ends the handler with CallbackError), and the poll still holds the
\* lock and is still in its reads.
C20_PushAppliedDuringPoll ==
    (ev.kind = "push" /\ state_update_lock # None) =>
       /\ ev.val = Decode(ev.step, ev.raw)
       /\ mirror[Field(ev.step)] = ev.val
       /\ ev.cb = "inline"
       /\ ev.res = "ok" => ev.ran = Len(state_changed_callbacks)
       /\ ev.res # "ok" => (ev.res = "CallbackError" /\ ev.ran >= 1)
       /\ \E p \in Pollers : state_update_lock = p /\ InReads(p)

\* The device has pushed power on while a poll was reading inside the lock:
\* the Mirror holds it and the callback has run.
C20_Witness ==
    /\ ev.kind = "push"
    /\ ev.step = "power"
    /\ ev.val = "True"
    /\ ev.ran >= 1
    /\ ev.res = "ok"
    /\ mirror.power_on = "True"
    /\ \E p \in Pollers : state_update_lock = p /\ proc[p].pc = "g_io"

C22_FlagsFollowServiceTable ==
    [][(\E s \in Sessions : ~sess[s].disc /\ sess'[s].disc) =>
          \A c \in Chars : PollSupported(mirror', c) <=> c \in deviceServices']_vars

\* The characteristics of the four features.
FeatureChars == {SubOrder[j] : j \in 1..4}

\* C23 as stated: a setter of a feature whose capability flag is absent
\* issues no transport write.
C23_UnsupportedSetterWritesNothing ==
    \A p \in Users :
       (io[p].gop = "write" /\ io[p].char \in FeatureChars
          /\ ~Supports(mirror, io[p].char)) =>
             (io[p].ios = 0 /\ proc[p].pc # "g_io")

\* C23, amended: the setters make no supports check. A setter called with
\* the capability flag absent goes through connect() and the transport write
\* like any other; it returns only when the device has the characteristic
\* and acknowledged the write, and otherwise fails with ReadWriteError after
\* max_attempts attempts, never with another error.
C23_SettersMakeNoSupportsCheck ==
    /\ ev.kind = "gatt_fail" =>
          /\ ev.res = "ReadWriteError"
          /\ ev.att = MaxAttempts("write")
    /\ ev.kind = "write_ret" => (ev.step \in deviceServices /\ ev.ios >= 1)
    /\ \A p \in Users :
          io[p].gop = "write" =>
             /\ io[p].calls = io[p].att
             /\ io[p].att >= 1

\* set_brightness on a connected light without the brightness
\* characteristic has failed after three attempts that each reached the
\* transport.
C23_Witness ==
    /\ ev.kind = "gatt_fail"
    /\ ev.step = "brightness"
    /\ ev.res = "ReadWriteError"
    /\ ev.ios = MaxAttempts("write")
    /\ ~supports_brightness(mirror)
    /\ "brightness" \notin deviceServices
    /\ connected(St)

\* C24: for every integer b, set_brightness(b) hands the transport exactly
\* one byte: 1 when b < 1, 254 when b > 254, b otherwise; and poll_brightness
\* decodes that byte to the same number.
C24_BrightnessClampRoundTrip ==
    (ev.kind = "payload" /\ ev.step = "brightness") =>
       /\ Len(ev.val) = 1
       /\ ev.val[1] \in 0..255
       /\ ev.arg < 1 => ev.val[1] = 1
       /\ ev.arg > 254 => ev.val[1] = 254
       /\ ev.arg \in 1..254 => ev.val[1] = ev.arg
       /\ ev.seen = ev.val[1]

\* set_brightness(300) has made the byte 254.
C24_Witness ==
    /\ ev.kind = "payload"
    /\ ev.step = "brightness"
    /\ ev.arg = 300
    /\ ev.val = <<254>>
    /\ ev.seen = 254

\* C25: for every integer t, set_colour_temp(t) hands the transport the two
\* bytes, low byte first, of 153 when t < 153, of 500 when t > 500 and of t
\* otherwise; and poll_colour_temp decodes those bytes to the same number.
C25_ColourTempClampRoundTrip ==
    (ev.kind = "payload" /\ ev.step = "colour_temp") =>
       /\ Len(ev.val) = 2
       /\ ev.val[1] \in 0..255
       /\ ev.val[2] \in 0..255
       /\ ev.arg < 153 => ev.val = <<153, 0>>
       /\ ev.arg > 500 => ev.val = <<244, 1>>
       /\ ev.arg \in 153..500 =>
             (ev.val[1] + 256 * ev.val[2] = ev.arg /\ ev.seen = ev.arg)
       /\ ev.seen \in 153..500
       /\ ev.seen = ev.val[1] + 256 * ev.val[2]

\* set_colour_temp(300) has made the bytes 44, 1, which decode to 300.
C25_Witness ==
    /\ ev.kind = "payload"
    /\ ev.step = "colour_temp"
    /\ ev.arg = 300
    /\ ev.val = <<44, 1>>
    /\ ev.seen = 300

\* HueBleError and its subclasses.
HueBleErrors == {"ConnectionError", "InitialConnectionError", "PairingError",
                 "ReadWriteError", "ServicesError", "CallbackError"}

DisconnectStep ==
    \/ ev'.kind \in {"disconnect_ret", "disconnect_fail", "notify"}
    \/ \E p \in Procs : /\ proc'[p] # proc[p]
                        /\ \/ proc[p].pc \in {"d_await", "d_closed"}
                           \/ proc'[p].pc \in {"d_await", "d_closed"}
    \/ \E s \in Sessions : sess[s].notify /\ ~sess'[s].notify

\* C27: no step of disconnect() and no disconnect notification, expected,
\* unexpected or stale, changes the Mirror: every getter and every
\* supports_X query returns after it what it returned before.
C27_DisconnectKeepsMirror ==
    [][DisconnectStep =>
          /\ mirror' = mirror
          /\ \A c \in Chars : /\ Getter(mirror', c) = Getter(mirror, c)
                              /\ PollSupported(mirror', c) = PollSupported(mirror, c)]_vars

\* disconnect() has returned, the session reference is gone, and the light
\* is still known to support brightness.
C27_Witness ==
    /\ ev.kind = "disconnect_ret"
    /\ ev.step = "disconnect"
    /\ client = None
    /\ supports_brightness(mirror)
    /\ mirror.manufacturer = DEFAULT_METADATA_STRING

\* The steps that can run the callbacks: a push notification, the end of a
\* poll, the end of a connection sequence, a disconnect notification.
Triggers == {"push", "poll_ret", "connect_ret", "notify"}

\* C28: on every trigger path (push, poll, successful connect, unexpected
\* disconnect) the functions invoked are the registered ones from the first
\* on, in registration order; when none raises all of them are invoked and
\* the trigger ends normally; when one raises the trigger ends with
\* CallbackError and the one that raised is the last invoked.
C28_CallbacksInRegistrationOrder ==
    ev.kind \in Triggers =>
        /\ Len(ev.order) <= Len(state_changed_callbacks)
        /\ ev.order = SubSeq(state_changed_callbacks, 1, Len(ev.order))
        /\ ev.raised # 0 => /\ ev.res = "CallbackError"
                            /\ Len(ev.order) = ev.raised
        /\ (ev.raised = 0 /\ ev.order # <<>>) =>
               /\ ev.res # "CallbackError"
               /\ ev.order = state_changed_callbacks
        /\ ev.res = "CallbackError" => ev.raised # 0

\* Two different functions are registered, the first raises, and the second
\* is not invoked, at an unexpected disconnect.
C28_Witness ==
    /\ ev.kind = "notify"
    /\ ev.res = "CallbackError"
    /\ Len(state_changed_callbacks) = 2
    /\ state_changed_callbacks[1] # state_changed_callbacks[2]
    /\ ev.order = <<state_changed_callbacks[1]>>

\* C29: in every reachable state the colour_temp getter returns None or an
\* integer of 153..500.
C29_ColourTempInDomain ==
    \/ Getter(mirror, "colour_temp") = NoneI
    \/ Getter(mirror, "colour_temp") \in 153..500

\* The step ends the connection sequence of a task, and the session that
\* sequence opened is connected, paired, discovered and subscribed for every
\* feature the light supports.
SequenceSucceeded ==
    /\ ev'.kind = "connect_ret"
    /\ ev'.cause = "sequence"
    /\ \E p \in Procs :
          /\ proc[p].pc \in SeqPcs
          /\ connection_lock = p
          /\ proc'[p].pc = "idle"
          /\ LET s == IF proc[p].pc = "c_open" THEN nsess' ELSE proc[p].tgt
             IN /\ sess'[s].st = "connected"
                /\ sess'[s].paired
                /\ sess'[s].disc
                /\ sess'[s].subs =
                       {SubOrder[j] :
                           j \in {k \in 1..4 : Supports(mirror', SubOrder[k])}}

\* C30: disconnects become marked unexpected, and the attempt counter goes
\* back to zero, only in the step that ends a connection sequence in which
\* every step succeeded; the step in which a sequence fails changes neither
\* the mark nor the counter, and the counter is then one higher than before
\* the sequence: it grows by one when a task enters the sequence with the
\* connection lock and stays while that task holds the lock.
C30_MarkAndCounterAtSequenceEnd ==
    [][/\ (expect_disconnect /\ ~expect_disconnect') => SequenceSucceeded
       /\ (connection_attempts # 0 /\ connection_attempts' = 0)
              => SequenceSucceeded
       /\ ev'.kind = "connect_fail" =>
              /\ expect_disconnect' = expect_disconnect
              /\ connection_attempts' = connection_attempts
              /\ ev'.step # "lock" => connection_attempts >= 1
       /\ connection_attempts' \notin {connection_attempts, 0} =>
              /\ connection_attempts' = connection_attempts + 1
              /\ connection_lock = None
              /\ connection_lock' # None
              /\ proc'[connection_lock'].pc = "c_open"
       /\ (connection_lock # None /\ connection_lock' = connection_lock) =>
              connection_attempts' = connection_attempts]_vars

\* A sequence that was entered with the counter at zero and the mark
\* "expected" has failed after the transport was opened: the counter is one
\* and the mark is unchanged.
C30_Witness ==
    /\ ev.kind = "connect_fail"
    /\ ev.step \in {"pair", "discover", "subscribe"}
    /\ connection_attempts = 1
    /\ expect_disconnect

\* A connect() has just failed in its pairing step.
PairFailed == ev.kind = "connect_fail" /\ ev.step = "pair"

\* C31: the pairing step issues a pair request iff the status it sees is not
\* Authenticated; it fails with a PairingError when the request fails or
\* times out or when the status seen after the request is NotAuthenticated;
\* it lets the sequence go on when the request succeeded and the status seen
\* afterwards is Authenticated or Undeterminable.
C31_PairingStep ==
    /\ ev.chk = "entry" =>
           ((\E p \in Procs : proc[p].pc = "c_pair") <=> ev.auth # "True")
    /\ PairFailed => ev.cause = "PairingError"
    /\ (ev.chk = "after" /\ ev.auth = "False") => PairFailed
    /\ (ev.chk = "after" /\ ev.auth # "False") => ~PairFailed

\* C32: an explicit disconnect() issued while a reconnect cycle is pending
\* cancels the cycle: once that disconnect() has returned, the reconnect
\* task of the lost session opens no new session.
C32_DisconnectCancelsReconnect ==
    [][\A s \in Sessions :
          (sess[s].cut /\ proc[TaskOf(s)].pc = "c_open")
              => nsess' = nsess]_vars

\* C33: a step that runs no capability discovery (no poll, push, write or
\* disconnect step) changes neither a supports_X result nor the set of
\* characteristics poll_state reads, whatever the device returns.
C33_SupportFixedBetweenDiscoveries ==
    [][(\A s \in Sessions : sess'[s].disc => sess[s].disc) =>
           \A c \in Chars : PollSupported(mirror', c) = PollSupported(mirror, c)]_vars

\* C34 (as claimed): a poll_state that completes returns true iff a value it
\* read differs from the Mirror value held just before the read of that
\* characteristic was started, and when it completes the Mirror field of
\* every characteristic it read holds the value read.
C34_PollReturnsChangedAndMirrorHoldsReads ==
    ev.kind = "poll_ret" =>
        /\ ev.val = ev.diff
        /\ \A c \in DOMAIN ev.got : mirror[Field(c)] = ev.got[c]

\* C34 (amended): a poll_state that completes returns true iff a value it
\* read differs from the Mirror value held just before the read of that
\* characteristic was started; when it completes, the Mirror field of the
\* characteristic it read last holds the value read, and so does the field
\* of every other characteristic it read unless a push notification or a
\* capability discovery has stored to that field after the read.
C34_PollReturnsChangedAndKeepsUnlessStored ==
    ev.kind = "poll_ret" =>
        /\ ev.val = ev.diff
        /\ ev.got # <<>> => (ev.step \in DOMAIN ev.got /\ ev.step \notin ev.over)
        /\ \A c \in (DOMAIN ev.got) \ ev.over : mirror[Field(c)] = ev.got[c]

\* A poll has completed after reading two characteristics, of which the
\* first was pushed with another value in between; a value read differed
\* and it returned true.
C34_Witness ==
    /\ ev.kind = "poll_ret"
    /\ ev.val
    /\ DOMAIN ev.got = {"power", "colour_temp"}
    /\ ev.over = {"power"}
    /\ mirror.power_on # ev.got["power"]

\* C35: both locks are released on every exit path: the connection lock is
\* held only by a task that is inside the connection sequence of a connect()
\* call, the state-update lock only by a task that is inside the reads of a
\* poll_state call; after a failure or a timeout neither stays held.
C35_LocksReleasedOnExit ==
    /\ connection_lock # None => proc[connection_lock].pc \in SeqPcs
    /\ state_update_lock # None =>
           /\ io[state_update_lock].poll
           /\ proc[state_update_lock].pc \notin {"idle", "p_wait"}

\* The timeout of a poll_state has expired while the poll, inside the
\* state-update lock, was inside the connection sequence of its read; both
\* locks are free.
C35_Witness ==
    /\ ev.kind = "poll_fail"
    /\ ev.res = "TimeoutError"
    /\ ev.calls >= 1
    /\ ev.ios = 0
    /\ connection_lock = None
    /\ state_update_lock = None

\* C36: when a poll_state and a push notification have completed, the Mirror
\* field of a characteristic holds the value the device reported last for
\* it: no poll is in progress => every field equals the last reported value.
C36_MirrorHoldsLastReported ==
    ~io[Poller].poll =>
        \A c \in DOMAIN ev.last : mirror[Field(c)] = ev.last[c]

\* A connection sequence has just ended with its flags set and a callback,
\* run after the lock was left, has raised.
CallbackRaisedAtSequenceEnd ==
    ev.kind = "connect_ret" /\ ev.cause = "sequence" /\ ev.res = "CallbackError"

\* C37: when a callback raises at the end of a successful connection
\* sequence, connect fails with a callback error and not a connection error,
\* the session is held, connected and subscribed for every supported
\* feature, disconnects are marked unexpected, the attempt counter is zero
\* and the lock is free; a connect call made then returns normally and
\* changes nothing.
C37_CallbackErrorKeepsConnection ==
    CallbackRaisedAtSequenceEnd =>
        /\ ev.res # "ConnectionError"
        /\ ev.raised # 0
        /\ connected(St)
        /\ sess[client].subs =
               {SubOrder[j] : j \in {k \in 1..4 : Supports(mirror, SubOrder[k])}}
        /\ ~expect_disconnect
        /\ connection_attempts = 0
        /\ connection_lock = None
        /\ \A p \in Procs :
              proc[p].pc = "idle" =>
                  ConnectCall(St, p, "connect") =
                      [St EXCEPT !.ev = Event("connect_ret", "ok", "already",
                                              "entry", "none", 0, 0)]

\* C38: a poll_state called on a light on which no capability discovery has
\* ever run reads no metadata string; as long as no discovery has run it has
\* read nothing and its read in progress is the one of the power
\* characteristic, whose connect() has opened a session when the poll
\* returns; when it returns it has read power and exactly those of
\* brightness, colour temperature and XY colour that are marked supported,
\* which are the ones the device has when a discovery has run during the
\* poll.
C38_FirstPollReadsPowerThenFeatures ==
    /\ (io[Poller].poll /\ ev.fresh) =>
           /\ DOMAIN ev.got \cap MetaChars = {}
           /\ NeverDiscovered(St) =>
                  /\ ev.got = <<>>
                  /\ io[Poller].char = "power"
                  /\ io[Poller].gop = "read"
    /\ (ev.kind = "poll_ret" /\ ev.res = "ok" /\ ev.fresh) =>
           /\ nsess >= 1
           /\ DOMAIN ev.got = {c \in FeatureChars : Supports(mirror, c)}
           /\ ~NeverDiscovered(St) =>
                  DOMAIN ev.got =
                      {"power"} \cup (deviceServices \cap FeatureChars)

\* C38 witness: the first poll of a light that has metadata, brightness,
\* colour temperature and XY colour has returned after reading power and
\* the three features.
C38_Witness ==
    /\ ev.kind = "poll_ret"
    /\ ev.res = "ok"
    /\ ev.fresh
    /\ deviceServices \cap MetaChars # {}
    /\ ~NeverDiscovered(St)
    /\ DOMAIN ev.got = FeatureChars

====
